---- MODULE Spec2Model ----
(***************************************************************************)
(* Model of the read-only decoding layer of the jeff format                *)
(* (unitaryfoundation/jeff, impl/rs).                                      *)
(*                                                                         *)
(* A buffer is a sequence of 8-byte words.  A message is one segment-table *)
(* word followed by the words of its single segment; the first word of the *)
(* segment is the root pointer and the word after it holds the root        *)
(* struct.  The contents of a struct are kept as a record: the byte-level  *)
(* pointer decoding is done by the capnp crate and is not part of the      *)
(* repository.                                                             *)
(***************************************************************************)
EXTENDS Integers, Sequences, FiniteSets, TLC

VARIABLES
    buf,        \* the bytes handed to both load entry points
    msgs,       \* the messages that were laid out back to back in buf
    slice,      \* the caller's slice cursor (&mut &[u8]) of read_slice
    stream,     \* the unread part of the caller's stream of read
    sliceRes,   \* log of the read_slice calls, oldest first
    readRes,    \* log of the read calls, oldest first
    view,       \* the module reader the accessors are called on
    call,       \* the last accessor call and its arguments
    ret,        \* what that call returned
    limiter     \* the words the read limiter of the message reader still
                \* allows; drawn on in SpecReaders, the other specifications
                \* make their calls within the limit

vars == <<buf, msgs, slice, stream, sliceRes, readRes, view, call, ret, limiter>>

(***************************************************************************)
(* Bounds                                                                  *)
(***************************************************************************)
MaxMsgs == 2
MaxPad == 1
MaxCut == 1
MaxVersion == 1
MaxCalls == 3
MaxStrings == 2
MaxValues == 2
MaxFuncs == 2
MaxBoundary == 2
MaxBranches == 2
MaxPaulis == 2
MaxMeta == 2
MaxOps == 2
MaxTraversal == 6

\* A version far from SCHEMA_VERSION (TLC integers are 32-bit signed).
HighVersion == 2^30

\* lib.rs: pub const SCHEMA_VERSION: u32 = 0;
SCHEMA_VERSION == 0

\* jeff.rs: pub const VERSION: u32 = crate::SCHEMA_VERSION;
VERSION == SCHEMA_VERSION

(***************************************************************************)
(* Encoded data: what a module struct holds in the buffer                  *)
(***************************************************************************)
MkModule(version, entrypoint, functions, strings) ==
    [version |-> version, entrypoint |-> entrypoint,
     functions |-> functions, strings |-> strings, metadata |-> <<>>]

\* The struct capnp hands out for a null pointer: every field at its default.
DefaultModule == MkModule(0, 0, <<>>, <<>>)

HdrWord(n) == [t |-> "hdr", n |-> n, kind |-> "none", m |-> DefaultModule]
PtrWord(kind) == [t |-> "ptr", n |-> 0, kind |-> kind, m |-> DefaultModule]
DataWord(m) == [t |-> "data", n |-> 0, kind |-> "none", m |-> m]
PadWord == [t |-> "pad", n |-> 0, kind |-> "none", m |-> DefaultModule]

Pad(k) == [i \in 1..k |-> PadWord]

\* One framed message: segment table, root pointer, root struct, padding.
Message(kind, m, pad) ==
    <<HdrWord(2 + pad), PtrWord(kind), DataWord(m)>> \o Pad(pad)

RECURSIVE Concat(_)
Concat(ss) == IF ss = <<>> THEN <<>> ELSE Head(ss) \o Concat(Tail(ss))

(***************************************************************************)
(* Encoded data below the module: strings, types, values, functions        *)
(***************************************************************************)
\* An entry of the module's text list: a text pointer with its bytes, or a
\* pointer that is not a valid text.
Text(bytes) == [kind |-> "text", bytes |-> bytes]
BadText == [kind |-> "badptr", bytes |-> <<>>]

\* "", "A", "e-acute", "A e-acute"
ValidTexts == {<<>>, <<65>>, <<195, 169>>, <<65, 195, 169>>}

\* a lead byte at the end, a stray continuation byte, 0xFF after "A", a lead
\* byte followed by "A"
InvalidTexts == {<<195>>, <<169>>, <<65, 255>>, <<195, 65>>}

StringEntries == {Text(b) : b \in ValidTexts \cup InvalidTexts} \cup {BadText}

StringTables == UNION {[1..n -> StringEntries] : n \in 0..MaxStrings}

\* jeff_capnp::type_ as encoded: the union discriminant and its payload.
EncType(which, arg) == [which |-> which, arg |-> arg]

EncTypes ==
    {EncType("qubit", 0), EncType("qureg", 0), EncType("int", 1),
     EncType("intArray", 8), EncType("float", "float32"),
     EncType("floatArray", "float64")}

\* jeff_capnp::value
EncValue(type) == [type |-> type, metadata |-> <<>>]

ValueEntries == {EncValue(t) : t \in EncTypes}

ValueTables == UNION {[1..n -> ValueEntries] : n \in 0..MaxValues}

\* jeff_capnp::meta: the string index of the name and the opaque value.
EncMeta(name, value) == [name |-> name, value |-> value]

\* jeff_capnp::region: boundary value ids, operations, metadata.
EncRegion(sources, targets, operations, metadata) ==
    [sources |-> sources, targets |-> targets,
     operations |-> operations, metadata |-> metadata]

\* The struct capnp hands out for a null region pointer.
DefaultRegion == EncRegion(<<>>, <<>>, <<>>, <<>>)

\* jeff_capnp::op: the instruction, boundary value ids, metadata.
EncOp(instruction, inputs, outputs, metadata) ==
    [instruction |-> instruction, inputs |-> inputs,
     outputs |-> outputs, metadata |-> metadata]

\* jeff_capnp::function: a definition with its body and value table, or a
\* declaration with its input and output value lists.
EncFunction(which, name, values, body, inputs, outputs, metadata) ==
    [which |-> which, name |-> name, values |-> values, body |-> body,
     inputs |-> inputs, outputs |-> outputs, metadata |-> metadata]

EncDefinition(name, values) ==
    EncFunction("definition", name, values, DefaultRegion, <<>>, <<>>, <<>>)

EncDeclaration(name) ==
    EncFunction("declaration", name, <<>>, DefaultRegion, <<>>, <<>>, <<>>)

(***************************************************************************)
(* Results                                                                 *)
(***************************************************************************)
NoJeff == [cow |-> "none", bytes |-> <<>>, lo |-> 1, hi |-> 0]

Ok(jeff) == [ok |-> TRUE, err |-> "none", v |-> 0, jeff |-> jeff]
InvalidFile == [ok |-> FALSE, err |-> "InvalidFile", v |-> 0, jeff |-> NoJeff]
InvalidVersion(v) == [ok |-> FALSE, err |-> "InvalidVersion", v |-> v, jeff |-> NoJeff]

(***************************************************************************)
(* The capnp calls made by the envelope                                    *)
(***************************************************************************)
\* The segment table at the front of the bytes (one word for one segment).
read_segment_table(bytes) ==
    IF bytes = <<>> THEN [st |-> "empty", words |-> 0]
    ELSE IF Head(bytes).t # "hdr" THEN [st |-> "invalid", words |-> 0]
    ELSE [st |-> "ok", words |-> Head(bytes).n]

read_message_from_flat_slice_keeps_last_word(bytes) ==
    LET tbl == read_segment_table(bytes)
        body == Tail(bytes)
    IN  IF tbl.st # "ok" \/ tbl.words > Len(body)
        THEN [ok |-> FALSE, rest |-> bytes, reader |-> NoJeff]
        ELSE [ok |-> TRUE,
              rest |-> SubSeq(body, tbl.words, Len(body)),
              reader |-> [cow |-> "Borrowed", bytes |-> bytes,
                          lo |-> 2, hi |-> 1 + tbl.words]]

\* capnp::serialize::read_message_from_flat_slice: the slice is advanced
\* only when the whole message is there; the reader keeps all the bytes and
\* the bounds of the segment.
read_message_from_flat_slice(bytes) ==
    LET tbl == read_segment_table(bytes)
        body == Tail(bytes)
    IN  IF tbl.st # "ok" \/ tbl.words > Len(body)
        THEN [ok |-> FALSE, rest |-> bytes, reader |-> NoJeff]
        ELSE [ok |-> TRUE,
              rest |-> SubSeq(body, tbl.words + 1, Len(body)),
              reader |-> [cow |-> "Borrowed", bytes |-> bytes,
                          lo |-> 2, hi |-> 1 + tbl.words]]

read_message_to_end(bytes) ==
    LET tbl == read_segment_table(bytes)
        body == Tail(bytes)
    IN  IF tbl.st # "ok" \/ tbl.words > Len(body)
        THEN [ok |-> FALSE, rest |-> <<>>, reader |-> NoJeff]
        ELSE [ok |-> TRUE,
              rest |-> <<>>,
              reader |-> [cow |-> "Owned",
                          bytes |-> SubSeq(body, 1, tbl.words),
                          lo |-> 1, hi |-> tbl.words]]

read_message_copies_table(bytes) ==
    LET tbl == read_segment_table(bytes)
        body == Tail(bytes)
    IN  IF tbl.st # "ok" \/ tbl.words > Len(body)
        THEN [ok |-> FALSE, rest |-> <<>>, reader |-> NoJeff]
        ELSE [ok |-> TRUE,
              rest |-> SubSeq(body, tbl.words + 1, Len(body)),
              reader |-> [cow |-> "Owned",
                          bytes |-> SubSeq(bytes, 1, tbl.words),
                          lo |-> 1, hi |-> tbl.words]]

\* capnp::serialize::read_message: reads the segment table, then exactly the
\* segment's words into an owned buffer; a short stream is read to its end.
read_message(bytes) ==
    LET tbl == read_segment_table(bytes)
        body == Tail(bytes)
    IN  IF tbl.st = "empty"
        THEN [ok |-> FALSE, rest |-> bytes, reader |-> NoJeff]
        ELSE IF tbl.st = "invalid"
        THEN [ok |-> FALSE, rest |-> body, reader |-> NoJeff]
        ELSE IF tbl.words > Len(body)
        THEN [ok |-> FALSE, rest |-> <<>>, reader |-> NoJeff]
        ELSE [ok |-> TRUE,
              rest |-> SubSeq(body, tbl.words + 1, Len(body)),
              reader |-> [cow |-> "Owned",
                          bytes |-> SubSeq(body, 1, tbl.words),
                          lo |-> 1, hi |-> tbl.words]]

\* The words of the reader's segment.
Segment(reader) == SubSeq(reader.bytes, reader.lo, reader.hi)

\* TypedReader::get: the root pointer must be a struct pointer (or null,
\* which reads as the default struct).
get_root(reader) ==
    LET seg == Segment(reader)
    IN  IF seg = <<>> \/ Head(seg).t # "ptr"
        THEN [ok |-> FALSE, m |-> DefaultModule]
        ELSE IF Head(seg).kind = "null"
        THEN [ok |-> TRUE, m |-> DefaultModule]
        ELSE IF Head(seg).kind = "struct" /\ Len(seg) >= 2 /\ seg[2].t = "data"
        THEN [ok |-> TRUE, m |-> seg[2].m]
        ELSE [ok |-> FALSE, m |-> DefaultModule]

(***************************************************************************)
(* jeff.rs                                                                 *)
(***************************************************************************)
\* JeffCow::module / ReadJeff::module
module(jeff) == get_root(jeff).m

\* Module::version
Module_version(m) == m.version

check_version_accepts_older(jeff) ==
    LET version == Module_version(module(jeff))
    IN  IF version <= VERSION + 1 THEN Ok(jeff) ELSE InvalidVersion(VERSION)

check_version(jeff) ==
    LET version == Module_version(module(jeff))
    IN  IF version = VERSION THEN Ok(jeff) ELSE InvalidVersion(version)

\* The version field of the struct word, read without the root check.
RawVersion(reader) ==
    LET seg == Segment(reader)
    IN  IF Len(seg) >= 2 THEN seg[2].m.version ELSE 0

read_slice_version_first(s) ==
    LET r == read_message_from_flat_slice(s)
    IN  IF ~r.ok THEN [res |-> InvalidFile, rest |-> r.rest]
        ELSE IF RawVersion(r.reader) # VERSION
        THEN [res |-> InvalidVersion(RawVersion(r.reader)), rest |-> r.rest]
        ELSE IF ~get_root(r.reader).ok THEN [res |-> InvalidFile, rest |-> r.rest]
        ELSE [res |-> Ok(r.reader), rest |-> r.rest]

read_slice_rolls_back(s) ==
    LET r == read_message_from_flat_slice(s)
    IN  IF ~r.ok THEN [res |-> InvalidFile, rest |-> r.rest]
        ELSE IF ~get_root(r.reader).ok THEN [res |-> InvalidFile, rest |-> r.rest]
        ELSE IF check_version(r.reader).ok THEN [res |-> check_version(r.reader), rest |-> r.rest]
        ELSE [res |-> check_version(r.reader), rest |-> s]

read_slice(s) ==
    LET r == read_message_from_flat_slice(s)
    IN  IF ~r.ok THEN [res |-> InvalidFile, rest |-> r.rest]
        ELSE IF ~get_root(r.reader).ok THEN [res |-> InvalidFile, rest |-> r.rest]
        ELSE [res |-> check_version(r.reader), rest |-> r.rest]

read_checks_entrypoint(s) ==
    LET r == read_message(s)
    IN  IF ~r.ok THEN [res |-> InvalidFile, rest |-> r.rest]
        ELSE IF ~get_root(r.reader).ok THEN [res |-> InvalidFile, rest |-> r.rest]
        ELSE IF module(r.reader).entrypoint >= Len(module(r.reader).functions)
        THEN [res |-> InvalidFile, rest |-> r.rest]
        ELSE [res |-> check_version(r.reader), rest |-> r.rest]

read(s) ==
    LET r == read_message(s)
    IN  IF ~r.ok THEN [res |-> InvalidFile, rest |-> r.rest]
        ELSE IF ~get_root(r.reader).ok THEN [res |-> InvalidFile, rest |-> r.rest]
        ELSE [res |-> check_version(r.reader), rest |-> r.rest]

(***************************************************************************)
(* The buffers the load entry points are run on                            *)
(***************************************************************************)
Versions == (0..MaxVersion) \cup {HighVersion}

\* Modules without functions of every version, and a module of the supported
\* version whose entrypoint is the second of its two functions.
LoadModules ==
    {MkModule(v, 0, <<>>, <<>>) : v \in Versions}
        \cup {MkModule(SCHEMA_VERSION, 1, <<EncDeclaration(0), EncDeclaration(1)>>, <<>>)}

\* Messages with a struct root, messages whose root is a list pointer in
\* front of a struct word of each version, and one with a null root.
Messages ==
    {Message("struct", m, p) : m \in LoadModules, p \in 0..MaxPad}
        \cup {Message("list", MkModule(v, 0, <<>>, <<>>), 0) : v \in 0..MaxVersion}
        \cup {Message("null", MkModule(1, 0, <<>>, <<>>), 0)}

MessageLists == UNION {[1..n -> Messages] : n \in 0..MaxMsgs}

Truncate(bytes, cut) ==
    IF cut >= Len(bytes) THEN <<>> ELSE SubSeq(bytes, 1, Len(bytes) - cut)

NoCall == [op |-> "none", idx |-> 0, ctx |-> "", dir |-> "none"]
NoRet == [tag |-> "none", val |-> 0, err |-> 0]

InitLoad ==
    /\ msgs \in MessageLists
    /\ \E cut \in 0..MaxCut : buf = Truncate(Concat(msgs), cut)
    /\ slice = buf
    /\ stream = buf
    /\ sliceRes = <<>>
    /\ readRes = <<>>
    /\ limiter = MaxTraversal
    /\ view = DefaultModule
    /\ call = NoCall
    /\ ret = NoRet

\* let j = Jeff::read_slice(&mut slice);
ReadSlice ==
    /\ Len(sliceRes) < MaxCalls
    /\ LET r == read_slice(slice)
       IN  /\ slice' = r.rest
           /\ sliceRes' = Append(sliceRes, [inp |-> slice, res |-> r.res, rest |-> r.rest])
    /\ UNCHANGED <<buf, msgs, stream, readRes, view, call, ret, limiter>>

\* let j = Jeff::read(&mut stream);
Read ==
    /\ Len(readRes) < MaxCalls
    /\ LET r == read(stream)
       IN  /\ stream' = r.rest
           /\ readRes' = Append(readRes, [inp |-> stream, res |-> r.res, rest |-> r.rest])
    /\ UNCHANGED <<buf, msgs, slice, sliceRes, view, call, ret, limiter>>

NextLoad == ReadSlice \/ Read

SpecLoad == InitLoad /\ [][NextLoad]_vars

(***************************************************************************)
(* reader.rs: ReadError                                                    *)
(***************************************************************************)
StringOutOfBounds(context, idx, count) ==
    [kind |-> "StringOutOfBounds", context |-> context, idx |-> idx,
     count |-> count, source |-> 0]

\* source is the Utf8Error, kept as its valid_up_to.
StringNotUtf8(context, idx, source) ==
    [kind |-> "StringNotUtf8", context |-> context, idx |-> idx,
     count |-> 0, source |-> source]

ValueOutOfBounds(idx, count) ==
    [kind |-> "ValueOutOfBounds", context |-> "", idx |-> idx,
     count |-> count, source |-> 0]

NoError == [kind |-> "none", context |-> "", idx |-> 0, count |-> 0, source |-> 0]

\* What a call hands back: Ok(v) / Some(v), Err(e), None, or a panic.
RetOk(v) == [tag |-> "Ok", val |-> v, err |-> NoError]
RetErr(e) == [tag |-> "Err", val |-> 0, err |-> e]
RetNone == [tag |-> "None", val |-> 0, err |-> NoError]
RetPanic == [tag |-> "Panic", val |-> 0, err |-> NoError]

(***************************************************************************)
(* reader/string_table.rs                                                  *)
(***************************************************************************)
\* The number of continuation bytes a lead byte asks for (-1: not a lead).
Utf8Continuations(b) ==
    IF b < 128 THEN 0
    ELSE IF b \in 194..223 THEN 1
    ELSE IF b \in 224..239 THEN 2
    ELSE IF b \in 240..244 THEN 3
    ELSE -1

\* core::str::from_utf8: the length of the longest valid prefix made of
\* whole characters, scanning from byte i.
RECURSIVE Utf8ValidUpTo(_, _)
Utf8ValidUpTo(bytes, i) ==
    IF i = Len(bytes) THEN i
    ELSE LET k == Utf8Continuations(bytes[i + 1])
         IN  IF k < 0 \/ i + 1 + k > Len(bytes) THEN i
             ELSE IF \E j \in 1..k : bytes[i + 1 + j] \notin 128..191 THEN i
             ELSE Utf8ValidUpTo(bytes, i + 1 + k)

\* text::Reader::to_str
to_str(bytes) ==
    LET n == Utf8ValidUpTo(bytes, 0)
    IN  IF n = Len(bytes) THEN [ok |-> TRUE, str |-> bytes, valid_up_to |-> n]
        ELSE [ok |-> FALSE, str |-> <<>>, valid_up_to |-> n]

StringTable_read_capnp(strings) == [strings |-> strings]

StringTable_len(t) == Len(t.strings)

StringTable_get_inclusive(t, idx, access_context) ==
    IF idx > Len(t.strings)
    THEN RetErr(StringOutOfBounds(access_context, idx, StringTable_len(t)))
    ELSE IF idx = Len(t.strings) \/ t.strings[idx + 1].kind # "text" THEN RetPanic
    ELSE LET string == to_str(t.strings[idx + 1].bytes)
         IN  IF string.ok THEN RetOk(string.str)
             ELSE RetErr(StringNotUtf8(access_context, idx, string.valid_up_to))

StringTable_get_lossy(t, idx, access_context) ==
    IF idx >= Len(t.strings)
    THEN RetErr(StringOutOfBounds(access_context, idx, StringTable_len(t)))
    ELSE IF t.strings[idx + 1].kind # "text" THEN RetPanic
    ELSE RetOk(SubSeq(t.strings[idx + 1].bytes, 1,
                      Utf8ValidUpTo(t.strings[idx + 1].bytes, 0)))

StringTable_get(t, idx, access_context) ==
    IF idx >= Len(t.strings)
    THEN RetErr(StringOutOfBounds(access_context, idx, StringTable_len(t)))
    ELSE IF t.strings[idx + 1].kind # "text" THEN RetPanic
    ELSE LET string == to_str(t.strings[idx + 1].bytes)
         IN  IF string.ok THEN RetOk(string.str)
             ELSE RetErr(StringNotUtf8(access_context, idx, string.valid_up_to))

(***************************************************************************)
(* types.rs                                                                *)
(***************************************************************************)
FloatPrecision_from_capnp(prec) ==
    IF prec = "float32" THEN "Float32" ELSE "Float64"

Type_read_capnp(reader) ==
    CASE reader.which = "qubit" -> [tag |-> "Qubit", bits |-> 0, precision |-> "none"]
      [] reader.which = "qureg" -> [tag |-> "QubitRegister", bits |-> 0, precision |-> "none"]
      [] reader.which = "int" -> [tag |-> "Int", bits |-> reader.arg, precision |-> "none"]
      [] reader.which = "intArray" -> [tag |-> "IntArray", bits |-> reader.arg, precision |-> "none"]
      [] reader.which = "float" ->
            [tag |-> "Float", bits |-> 0, precision |-> FloatPrecision_from_capnp(reader.arg)]
      [] reader.which = "floatArray" ->
            [tag |-> "FloatArray", bits |-> 0, precision |-> FloatPrecision_from_capnp(reader.arg)]

(***************************************************************************)
(* reader/value.rs, reader/value/wire_value.rs                             *)
(***************************************************************************)
Some(x) == [some |-> TRUE, x |-> x]
None == [some |-> FALSE, x |-> 0]

Value_read_capnp(id, value, strings) ==
    [id |-> id, value_type |-> Type_read_capnp(value.type),
     metadata |-> value.metadata, strings |-> strings]

Value_id(v) == v.id

Value_ty(v) == v.value_type

WireValue_read_capnp_next_id(id, value, strings) ==
    [id |-> id + 1, value_type |-> Type_read_capnp(value.type),
     metadata |-> value.metadata, strings |-> strings]

WireValue_read_capnp(id, value, strings) ==
    [id |-> id, value_type |-> Type_read_capnp(value.type),
     metadata |-> value.metadata, strings |-> strings]

WireValue_id(v) == v.id

WireValue_ty(v) == v.value_type

ValueTable_read_capnp(values, strings) == [values |-> values, strings |-> strings]

ValueTable_len(t) == Len(t.values)

ValueTable_is_empty(t) == Len(t.values) = 0

ValueTable_get_inclusive(t, idx) ==
    IF idx > Len(t.values) \/ Len(t.values) = 0
    THEN RetErr(ValueOutOfBounds(idx, ValueTable_len(t)))
    ELSE IF idx = Len(t.values)
    THEN RetOk(Value_read_capnp(Some(idx), t.values[idx], t.strings))
    ELSE RetOk(Value_read_capnp(Some(idx), t.values[idx + 1], t.strings))

ValueTable_get(t, idx) ==
    IF idx >= Len(t.values)
    THEN RetErr(ValueOutOfBounds(idx, ValueTable_len(t)))
    ELSE RetOk(Value_read_capnp(Some(idx), t.values[idx + 1], t.strings))

\* Iteration over the table: (ValueId, WireValue) pairs in table order.
ValueTable_iter(t) ==
    [k \in 1..Len(t.values) |->
        [id |-> k - 1, value |-> WireValue_read_capnp(k - 1, t.values[k], t.strings)]]

(***************************************************************************)
(* usize indices                                                           *)
(***************************************************************************)
\* A usize of a 64-bit target is kept as its two 32-bit halves, hi * 2^32 + lo
\* (TLC integers are 32-bit signed).
Usize(hi, lo) == [hi |-> hi, lo |-> lo]

\* `x as usize` of a u32
as_usize(x) == Usize(0, x)

\* `n as u32` of a usize: the low 32 bits
as_u32(n) == n.lo

\* n >= m on two usize values
UsizeGe(n, m) == n.hi > m.hi \/ (n.hi = m.hi /\ n.lo >= m.lo)

(***************************************************************************)
(* lib.rs: Direction                                                       *)
(***************************************************************************)
Incoming == "Incoming"
Outgoing == "Outgoing"
Directions == {Incoming, Outgoing}

(***************************************************************************)
(* reader/region.rs                                                        *)
(***************************************************************************)
Region_read_capnp(region, strings, values) ==
    [region |-> region, strings |-> strings, values |-> values]

\* The items of the iterator returned by Region::boundary, in order.
Region_boundary(r, direction) ==
    LET values == IF direction = Incoming THEN r.region.sources ELSE r.region.targets
    IN  [k \in 1..Len(values) |-> ValueTable_get(r.values, values[k])]

Region_sources(r) == Region_boundary(r, Incoming)

Region_targets(r) == Region_boundary(r, Outgoing)

Region_boundary_count(r, direction) ==
    as_usize(Len(IF direction = Incoming THEN r.region.sources ELSE r.region.targets))

Region_source_count(r) == Region_boundary_count(r, Incoming)

Region_target_count(r) == Region_boundary_count(r, Outgoing)

Region_boundary_value_err_on_range(r, direction, idx) ==
    LET values == IF direction = Incoming THEN r.region.sources ELSE r.region.targets
    IN  IF UsizeGe(idx, as_usize(Len(values)))
        THEN Some(RetErr(ValueOutOfBounds(as_u32(idx), Len(values))))
        ELSE Some(ValueTable_get(r.values, values[as_u32(idx) + 1]))

Region_boundary_value(r, direction, idx) ==
    LET values == IF direction = Incoming THEN r.region.sources ELSE r.region.targets
    IN  IF UsizeGe(idx, as_usize(Len(values))) THEN None
        ELSE Some(ValueTable_get(r.values, values[as_u32(idx) + 1]))

Region_source(r, idx) == Region_boundary_value(r, Incoming, idx)

Region_target(r, idx) == Region_boundary_value(r, Outgoing, idx)

(***************************************************************************)
(* reader/op.rs                                                            *)
(***************************************************************************)
Operation_read_capnp(operation, strings, values) ==
    [op |-> operation, strings |-> strings, values |-> values]

\* The items of the iterator returned by Operation::boundary, in order.
Operation_boundary(o, direction) ==
    LET values == IF direction = Incoming THEN o.op.inputs ELSE o.op.outputs
    IN  [k \in 1..Len(values) |-> ValueTable_get(o.values, values[k])]

Operation_inputs(o) == Operation_boundary(o, Incoming)

Operation_outputs(o) == Operation_boundary(o, Outgoing)

Operation_boundary_count_swapped(o, direction) ==
    as_usize(Len(IF direction = Incoming THEN o.op.outputs ELSE o.op.inputs))

Operation_boundary_count(o, direction) ==
    as_usize(Len(IF direction = Incoming THEN o.op.inputs ELSE o.op.outputs))

Operation_input_count(o) == Operation_boundary_count(o, Incoming)

Operation_output_count(o) == Operation_boundary_count(o, Outgoing)

Operation_boundary_value(o, direction, idx) ==
    LET values == IF direction = Incoming THEN o.op.inputs ELSE o.op.outputs
    IN  IF UsizeGe(idx, as_usize(Len(values))) THEN None
        ELSE LET value_id == values[as_u32(idx) + 1]
             IN  Some(ValueTable_get(o.values, value_id))

Operation_input(o, idx) == Operation_boundary_value(o, Incoming, idx)

Operation_output(o, idx) == Operation_boundary_value(o, Outgoing, idx)

\* res.map(|t| t.ty())
res_map_ty(res) == IF res.tag = "Ok" THEN RetOk(Value_ty(res.val)) ELSE res

Operation_input_types_ok_only(o) ==
    SelectSeq([k \in DOMAIN Operation_inputs(o) |-> res_map_ty(Operation_inputs(o)[k])],
              LAMBDA res : res.tag = "Ok")

\* Operation::input_types
Operation_input_types(o) ==
    [k \in DOMAIN Operation_inputs(o) |-> res_map_ty(Operation_inputs(o)[k])]

\* Operation::output_types
Operation_output_types(o) ==
    [k \in DOMAIN Operation_outputs(o) |-> res_map_ty(Operation_outputs(o)[k])]

\* The items of the iterator returned by Region::operations, in order.
Region_operations(r) ==
    [k \in 1..Len(r.region.operations) |->
        Operation_read_capnp(r.region.operations[k], r.strings, r.values)]

Region_operation_count(r) == as_usize(Len(r.region.operations))

\* struct_list::Reader::get asserts that the index is in range.
Region_operation(r, n) ==
    IF as_u32(n) >= Len(r.region.operations) THEN RetPanic
    ELSE RetOk(Operation_read_capnp(r.region.operations[as_u32(n) + 1],
                                    r.strings, r.values))

(***************************************************************************)
(* reader/optype/qubit.rs, qubit/well_known.rs, qubit/pauli.rs             *)
(***************************************************************************)
\* jeff_capnp::qubit_gate as encoded: the gate union and the three modifiers.
EncGate(which, payload, control_qubits, adjoint, power) ==
    [which |-> which, payload |-> payload, control_qubits |-> control_qubits,
     adjoint |-> adjoint, power |-> power]

\* The payload of a custom gate.
EncCustom(name, num_qubits, num_params) ==
    [name |-> name, num_qubits |-> num_qubits, num_params |-> num_params]

\* jeff_capnp::qubit_op as encoded.
EncQubitOp(which, gate) == [which |-> which, gate |-> gate]

\* jeff_capnp::WellKnownGate, in schema order.
CapnpWellKnownGates ==
    {"gphase", "i", "x", "y", "z", "s", "t", "r1", "rx", "ry", "rz", "h", "u", "swap"}

WellKnownGate_read_capnp(well_known) ==
    CASE well_known = "gphase" -> "GPhase"
      [] well_known = "i" -> "I"
      [] well_known = "x" -> "X"
      [] well_known = "y" -> "Y"
      [] well_known = "z" -> "Z"
      [] well_known = "s" -> "S"
      [] well_known = "t" -> "T"
      [] well_known = "r1" -> "R1"
      [] well_known = "rx" -> "Rx"
      [] well_known = "ry" -> "Ry"
      [] well_known = "rz" -> "Rz"
      [] well_known = "h" -> "H"
      [] well_known = "u" -> "U"
      [] well_known = "swap" -> "Swap"

WellKnownGate_num_qubits_swap_one(g) ==
    CASE g = "GPhase" -> 0
      [] g \in {"I", "X", "Y", "Z", "S", "T", "R1", "Rx", "Ry", "Rz", "H", "U", "Swap"} -> 1

WellKnownGate_num_qubits(g) ==
    CASE g = "GPhase" -> 0
      [] g \in {"I", "X", "Y", "Z", "S", "T", "R1", "Rx", "Ry", "Rz", "H", "U"} -> 1
      [] g = "Swap" -> 2

WellKnownGate_num_params_u_one(g) ==
    CASE g \in {"I", "X", "Y", "Z", "S", "T", "H", "Swap"} -> 0
      [] g \in {"GPhase", "R1", "Rx", "Ry", "Rz", "U"} -> 1

WellKnownGate_num_params(g) ==
    CASE g \in {"I", "X", "Y", "Z", "S", "T", "H", "Swap"} -> 0
      [] g \in {"GPhase", "R1", "Rx", "Ry", "Rz"} -> 1
      [] g = "U" -> 3

PauliString_read_capnp(pauli_string) == [paulis |-> pauli_string]

PauliString_len(p) == Len(p.paulis)

PauliString_num_qubits(p) == PauliString_len(p)

PauliString_num_params(p) == 1

\* The gate types, uniform records: Custom{name, num_qubits, num_params},
\* WellKnown(gate), PauliProdRotation{pauli_string}.
GateOpType(tag, name, num_qubits, num_params, well_known, pauli_string) ==
    [tag |-> tag, name |-> name, num_qubits |-> num_qubits,
     num_params |-> num_params, well_known |-> well_known,
     pauli_string |-> pauli_string]

GateOp_try_read_capnp_unchecked_name(gate, strings) ==
    RetOk([gate_type |-> GateOpType("Custom", <<>>, 0, 0, "none",
                                    PauliString_read_capnp(<<>>)),
           control_qubits |-> gate.control_qubits,
           adjoint |-> gate.adjoint, power |-> gate.power])

GateOp_try_read_capnp(gate, strings) ==
    LET control_qubits == gate.control_qubits
        adjoint == gate.adjoint
        power == gate.power
        Done(gate_type) ==
            RetOk([gate_type |-> gate_type, control_qubits |-> control_qubits,
                   adjoint |-> adjoint, power |-> power])
    IN  CASE gate.which = "wellKnown" ->
                 Done(GateOpType("WellKnown", <<>>, 0, 0,
                                 WellKnownGate_read_capnp(gate.payload),
                                 PauliString_read_capnp(<<>>)))
          [] gate.which = "custom" ->
                 LET name == StringTable_get(strings, gate.payload.name, "gate name")
                 IN  IF name.tag # "Ok" THEN name
                     ELSE Done(GateOpType("Custom", name.val, gate.payload.num_qubits,
                                          gate.payload.num_params, "none",
                                          PauliString_read_capnp(<<>>)))
          [] gate.which = "ppr" ->
                 Done(GateOpType("PauliProdRotation", <<>>, 0, 0, "none",
                                 PauliString_read_capnp(gate.payload)))

\* Result::unwrap_or_else(|e| panic!("{}", e))
unwrap_or_panic(r) == IF r.tag = "Ok" THEN r ELSE RetPanic

GateOp_read_capnp(gate, strings) ==
    unwrap_or_panic(GateOp_try_read_capnp(gate, strings))

\* GateOp::num_qubits: the base count of the gate type plus the controls,
\* computed in usize.
GateOp_num_qubits(g) ==
    (CASE g.gate_type.tag = "Custom" -> g.gate_type.num_qubits
       [] g.gate_type.tag = "WellKnown" -> WellKnownGate_num_qubits(g.gate_type.well_known)
       [] g.gate_type.tag = "PauliProdRotation" ->
              PauliString_num_qubits(g.gate_type.pauli_string))
        + g.control_qubits

\* GateOp::num_params
GateOp_num_params(g) ==
    CASE g.gate_type.tag = "Custom" -> g.gate_type.num_params
      [] g.gate_type.tag = "WellKnown" -> WellKnownGate_num_params(g.gate_type.well_known)
      [] g.gate_type.tag = "PauliProdRotation" ->
             PauliString_num_params(g.gate_type.pauli_string)

\* QubitOp::Gate(gate), reached only when reading the gate did not panic.
QubitOp_Gate(g) ==
    IF g.tag = "Ok" THEN RetOk([tag |-> "Gate", gate |-> g.val]) ELSE RetPanic

\* The arms of QubitOp::read_capnp without a payload.
QubitOpVariants ==
    [alloc |-> "Alloc", free |-> "Free", freeZero |-> "FreeZero",
     measure |-> "Measure", measureNd |-> "MeasureNd", reset |-> "Reset"]

\* which() of a discriminant outside the schema is an error, and expect panics.
QubitOp_read_capnp(qubit_op, strings) ==
    IF qubit_op.which = "gate"
    THEN QubitOp_Gate(GateOp_read_capnp(qubit_op.gate, strings))
    ELSE IF qubit_op.which \in DOMAIN QubitOpVariants
    THEN RetOk([tag |-> QubitOpVariants[qubit_op.which], gate |-> qubit_op.gate])
    ELSE RetPanic

(***************************************************************************)
(* reader/optype/qubit.rs (registers), int.rs, float.rs, const_val.rs      *)
(***************************************************************************)
\* A union member as encoded: its discriminant and its payload (0 for void).
EncVariant(which, val) == [which |-> which, val |-> val]

\* A decoded variant and the payload it carries (0 for a unit variant).
Variant(tag, val) == [tag |-> tag, val |-> val]

\* The arms of QubitRegisterOp::read_capnp.
QubitRegisterOpVariants ==
    [alloc |-> "Alloc", free |-> "Free", freeZero |-> "FreeZero",
     extractIndex |-> "ExtractIndex", insertIndex |-> "InsertIndex",
     extractSlice |-> "ExtractSlice", insertSlice |-> "InsertSlice",
     length |-> "Length", split |-> "Split", join |-> "Join", create |-> "Create"]

QubitRegisterOp_read_capnp(qubit_reg_op) ==
    IF qubit_reg_op.which \in DOMAIN QubitRegisterOpVariants
    THEN RetOk(Variant(QubitRegisterOpVariants[qubit_reg_op.which], 0))
    ELSE RetPanic

\* The arms of IntOp::read_capnp; the first five carry the encoded literal.
IntOpConsts ==
    [const1 |-> "Const1", const8 |-> "Const8", const16 |-> "Const16",
     const32 |-> "Const32", const64 |-> "Const64"]

IntOpVariants ==
    [add |-> "Add", sub |-> "Sub", mul |-> "Mul", divS |-> "DivS", divU |-> "DivU",
     pow |-> "Pow", and |-> "And", or |-> "Or", xor |-> "Xor", not |-> "Not",
     minS |-> "MinS", minU |-> "MinU", maxS |-> "MaxS", maxU |-> "MaxU",
     eq |-> "Eq", ltS |-> "LtS", lteS |-> "LteS", ltU |-> "LtU", lteU |-> "LteU",
     abs |-> "Abs", remS |-> "RemS", remU |-> "RemU", shl |-> "Shl", shr |-> "Shr"]

IntOp_read_capnp_drops_literal(int_op) ==
    IF int_op.which \in DOMAIN IntOpConsts
    THEN RetOk(Variant(IntOpConsts[int_op.which], 0))
    ELSE IF int_op.which \in DOMAIN IntOpVariants
    THEN RetOk(Variant(IntOpVariants[int_op.which], 0))
    ELSE RetPanic

IntOp_read_capnp(int_op) ==
    IF int_op.which \in DOMAIN IntOpConsts
    THEN RetOk(Variant(IntOpConsts[int_op.which], int_op.val))
    ELSE IF int_op.which \in DOMAIN IntOpVariants
    THEN RetOk(Variant(IntOpVariants[int_op.which], 0))
    ELSE RetPanic

\* A pointer field holding a primitive list: the list, or a pointer that does
\* not decode as one.
ListPtr(values) == [ptr |-> "list", values |-> values]
BadListPtr == [ptr |-> "bad", values |-> <<>>]

ConstArray_read_capnp(values) == [values |-> values]

\* ConstArray::read_capnp(val.expect(..))
ConstArray_expect(tag, val) ==
    IF val.ptr = "list" THEN RetOk(Variant(tag, ConstArray_read_capnp(val.values)))
    ELSE RetPanic

\* The arms of IntArrayOp::read_capnp.
IntArrayOpConsts ==
    [const1 |-> "ConstArray1", const8 |-> "ConstArray8", const16 |-> "ConstArray16",
     const32 |-> "ConstArray32", const64 |-> "ConstArray64"]

ArrayOpVariants ==
    [getIndex |-> "GetIndex", setIndex |-> "SetIndex", length |-> "Length",
     create |-> "Create"]

IntArrayOp_read_capnp(int_array_op) ==
    IF int_array_op.which \in DOMAIN IntArrayOpConsts
    THEN ConstArray_expect(IntArrayOpConsts[int_array_op.which], int_array_op.val)
    ELSE IF int_array_op.which = "zero"
    THEN RetOk(Variant("Zero", [bits |-> int_array_op.val]))
    ELSE IF int_array_op.which \in DOMAIN ArrayOpVariants
    THEN RetOk(Variant(ArrayOpVariants[int_array_op.which], 0))
    ELSE RetPanic

\* The arms of FloatOp::read_capnp; the first two carry the encoded literal.
FloatOpConsts == [const32 |-> "Const32", const64 |-> "Const64"]

FloatOpVariants ==
    [add |-> "Add", sub |-> "Sub", mul |-> "Mul", pow |-> "Pow", eq |-> "Eq",
     lt |-> "Lt", lte |-> "Lte", sqrt |-> "Sqrt", abs |-> "Abs", ceil |-> "Ceil",
     floor |-> "Floor", isNan |-> "IsNan", isInf |-> "IsInf", exp |-> "Exp",
     log |-> "Log", sin |-> "Sin", cos |-> "Cos", tan |-> "Tan", asin |-> "Asin",
     acos |-> "Acos", atan |-> "Atan", atan2 |-> "Atan2", sinh |-> "Sinh",
     cosh |-> "Cosh", tanh |-> "Tanh", asinh |-> "Asinh", acosh |-> "Acosh",
     atanh |-> "Atanh", max |-> "Max", min |-> "Min"]

FloatOp_read_capnp(float_op) ==
    IF float_op.which \in DOMAIN FloatOpConsts
    THEN RetOk(Variant(FloatOpConsts[float_op.which], float_op.val))
    ELSE IF float_op.which \in DOMAIN FloatOpVariants
    THEN RetOk(Variant(FloatOpVariants[float_op.which], 0))
    ELSE RetPanic

\* The arms of FloatArrayOp::read_capnp; precision.expect panics on an
\* enumerant outside the schema.
FloatArrayOp_read_capnp(float_array_op) ==
    IF float_array_op.which \in DOMAIN FloatOpConsts
    THEN ConstArray_expect(FloatOpConsts[float_array_op.which], float_array_op.val)
    ELSE IF float_array_op.which = "zero"
    THEN IF float_array_op.val \in {"float32", "float64"}
         THEN RetOk(Variant("Zero",
                  [precision |-> FloatPrecision_from_capnp(float_array_op.val)]))
         ELSE RetPanic
    ELSE IF float_array_op.which \in DOMAIN ArrayOpVariants
    THEN RetOk(Variant(ArrayOpVariants[float_array_op.which], 0))
    ELSE RetPanic

(***************************************************************************)
(* reader/optype/control_flow.rs, reader/optype.rs                         *)
(***************************************************************************)
\* A pointer field holding a region: null, a struct pointer with its region,
\* or a pointer that does not decode as a struct.
NullPtr == [ptr |-> "null", region |-> DefaultRegion]
StructPtr(region) == [ptr |-> "struct", region |-> region]
BadPtr == [ptr |-> "bad", region |-> DefaultRegion]

\* A getter of a struct pointer field: a null pointer reads as the default
\* struct, a pointer of another kind is an error.
get_struct(p) ==
    CASE p.ptr = "null" -> RetOk(DefaultRegion)
      [] p.ptr = "struct" -> RetOk(p.region)
      [] p.ptr = "bad" -> RetErr(NoError)

\* Result::ok
ok(res) == IF res.tag = "Ok" THEN res ELSE RetNone

\* jeff_capnp::scf_op::switch as encoded.
EncSwitch(branches, default) == [branches |-> branches, default |-> default]

\* jeff_capnp::scf_op as encoded.
EncScf(which, payload) == [which |-> which, payload |-> payload]

SwitchOp_read_capnp(switch, strings, values) ==
    LET default == ok(get_struct(switch.default))
    IN  [branches |-> switch.branches,
         default |-> IF default.tag = "Ok"
                     THEN RetOk(Region_read_capnp(default.val, strings, values))
                     ELSE RetNone,
         strings |-> strings, values |-> values]

\* The items of the iterator returned by SwitchOp::branches, in order.
SwitchOp_branches(sw) ==
    [k \in 1..Len(sw.branches) |->
        Region_read_capnp(sw.branches[k], sw.strings, sw.values)]

SwitchOp_branch_count(sw) == as_usize(Len(sw.branches))

\* struct_list::Reader::get asserts that the index is in range.
SwitchOp_branch(sw, n) ==
    IF as_u32(n) >= Len(sw.branches) THEN RetPanic
    ELSE RetOk(Region_read_capnp(sw.branches[as_u32(n) + 1], sw.strings, sw.values))

SwitchOp_try_branch(sw, n) ==
    IF as_u32(n) >= Len(sw.branches) THEN RetNone
    ELSE RetOk(Region_read_capnp(sw.branches[as_u32(n) + 1], sw.strings, sw.values))

SwitchOp_default_branch(sw) == sw.default

\* jeff_capnp::scf_op::while and do_while as encoded.
EncLoop(condition, body) == [condition |-> condition, body |-> body]

\* which() of a discriminant outside the schema is an error, and expect panics.
ControlFlowOp_read_capnp(control_flow, strings, values) ==
    CASE control_flow.which = "switch" ->
             RetOk([tag |-> "Switch",
                    switch |-> SwitchOp_read_capnp(control_flow.payload, strings, values)])
      [] control_flow.which = "for" ->
             RetOk([tag |-> "For",
                    region |-> Region_read_capnp(control_flow.payload, strings, values)])
      [] control_flow.which = "while" ->
             RetOk([tag |-> "While",
                    condition |-> Region_read_capnp(control_flow.payload.condition,
                                                    strings, values),
                    body |-> Region_read_capnp(control_flow.payload.body, strings, values)])
      [] control_flow.which = "doWhile" ->
             RetOk([tag |-> "DoWhile",
                    body |-> Region_read_capnp(control_flow.payload.body, strings, values),
                    condition |-> Region_read_capnp(control_flow.payload.condition,
                                                    strings, values)])
      [] OTHER -> RetPanic

FuncOp_low_byte(func_idx) == [func_idx |-> func_idx % 256]

\* FuncOp { func_idx }
FuncOp(func_idx) == [func_idx |-> func_idx]

\* OpType::X(inner), reached only when reading the inner operation did not
\* panic.
OpType_wrap(tag, inner) ==
    IF inner.tag = "Ok" THEN RetOk([tag |-> tag, op |-> inner.val]) ELSE RetPanic

OpType_QubitOp(q) == OpType_wrap("QubitOp", q)

\* OpType::read_capnp: one arm per discriminant of the instruction union; a
\* discriminant outside the union panics.
OpType_read_capnp(op, strings, values) ==
    CASE op.which = "qubit" -> OpType_QubitOp(QubitOp_read_capnp(op.payload, strings))
      [] op.which = "qureg" ->
             OpType_wrap("QubitRegisterOp", QubitRegisterOp_read_capnp(op.payload))
      [] op.which = "int" -> OpType_wrap("IntOp", IntOp_read_capnp(op.payload))
      [] op.which = "intArray" ->
             OpType_wrap("IntArrayOp", IntArrayOp_read_capnp(op.payload))
      [] op.which = "float" -> OpType_wrap("FloatOp", FloatOp_read_capnp(op.payload))
      [] op.which = "floatArray" ->
             OpType_wrap("FloatArrayOp", FloatArrayOp_read_capnp(op.payload))
      [] op.which = "scf" ->
             OpType_wrap("ControlFlowOp",
                         ControlFlowOp_read_capnp(op.payload, strings, values))
      [] op.which = "func" -> RetOk([tag |-> "FuncOp", op |-> FuncOp(op.payload)])
      [] OTHER -> RetPanic

\* Operation::op_type
Operation_op_type(o) == OpType_read_capnp(o.op.instruction, o.strings, o.values)

(***************************************************************************)
(* reader/function.rs, reader/module.rs                                    *)
(***************************************************************************)
Function_read_capnp(function, strings) ==
    IF function.which = "definition"
    THEN [kind |-> "Definition", function |-> function,
          body |-> function.body,
          values |-> ValueTable_read_capnp(function.values, strings),
          inputs |-> <<>>, outputs |-> <<>>,
          strings |-> strings]
    ELSE [kind |-> "Declaration", function |-> function,
          body |-> DefaultRegion,
          values |-> ValueTable_read_capnp(<<>>, strings),
          inputs |-> function.inputs, outputs |-> function.outputs,
          strings |-> strings]

FunctionDefinition_values(def) == def.values

FunctionDefinition_body_empty_table(def) ==
    Region_read_capnp(def.body, def.strings, ValueTable_read_capnp(<<>>, def.strings))

\* FunctionDefinition::body
FunctionDefinition_body(def) ==
    Region_read_capnp(def.body, def.strings, FunctionDefinition_values(def))

FunctionDefinition_input_types_from_targets(def) ==
    Region_targets(FunctionDefinition_body(def))

FunctionDefinition_input_types(def) == Region_sources(FunctionDefinition_body(def))

FunctionDefinition_output_types(def) == Region_targets(FunctionDefinition_body(def))

FunctionDeclaration_input_types_with_ids(decl) ==
    [k \in 1..Len(decl.inputs) |->
        RetOk(Value_read_capnp(Some(k - 1), decl.inputs[k], decl.strings))]

FunctionDeclaration_input_types(decl) ==
    [k \in 1..Len(decl.inputs) |->
        RetOk(Value_read_capnp(None, decl.inputs[k], decl.strings))]

FunctionDeclaration_output_types(decl) ==
    [k \in 1..Len(decl.outputs) |->
        RetOk(Value_read_capnp(None, decl.outputs[k], decl.strings))]

Function_input_types(f) ==
    IF f.kind = "Declaration" THEN FunctionDeclaration_input_types(f)
    ELSE FunctionDefinition_input_types(f)

Function_output_types(f) ==
    IF f.kind = "Declaration" THEN FunctionDeclaration_output_types(f)
    ELSE FunctionDefinition_output_types(f)

Module_strings(m) == StringTable_read_capnp(m.strings)

Module_functions_reader(m) == m.functions

\* The items of the iterator returned by Module::functions, in order.
Module_functions(m) ==
    [k \in 1..Len(Module_functions_reader(m)) |->
        Function_read_capnp(Module_functions_reader(m)[k], Module_strings(m))]

Module_function_count(m) == Len(Module_functions_reader(m))

\* struct_list::Reader::get asserts that the index is in range.
Module_function(m, n) ==
    IF n >= Len(Module_functions_reader(m)) THEN RetPanic
    ELSE RetOk(Function_read_capnp(Module_functions_reader(m)[n + 1], Module_strings(m)))

Module_try_function(m, n) ==
    IF n >= Len(Module_functions_reader(m)) THEN RetNone
    ELSE RetOk(Function_read_capnp(Module_functions_reader(m)[n + 1], Module_strings(m)))

Module_entrypoint_id(m) == m.entrypoint

\* Iterator::nth
nth(items, n) == IF n < Len(items) THEN RetOk(items[n + 1]) ELSE RetNone

\* Option::unwrap
unwrap(opt) == IF opt.tag = "None" THEN RetPanic ELSE opt

Module_entrypoint_first_on_miss(m) ==
    IF Module_entrypoint_id(m) < Len(Module_functions(m)) \/ Module_functions(m) = <<>>
    THEN unwrap(nth(Module_functions(m), Module_entrypoint_id(m)))
    ELSE RetOk(Module_functions(m)[1])

Module_entrypoint(m) == unwrap(nth(Module_functions(m), Module_entrypoint_id(m)))

(***************************************************************************)
(* The modules the accessors are run on, and the accessor calls            *)
(***************************************************************************)
StringModules == {MkModule(SCHEMA_VERSION, 0, <<>>, t) : t \in StringTables}

ValueModules ==
    {MkModule(SCHEMA_VERSION, 0, <<EncDefinition(0, vs)>>, <<Text(<<65>>)>>) :
        vs \in ValueTables}

EncFunctions ==
    {EncDefinition(0, <<>>), EncDefinition(1, <<EncValue(EncType("qubit", 0))>>),
     EncDeclaration(0), EncDeclaration(1)}

FunctionLists == UNION {[1..n -> EncFunctions] : n \in 0..MaxFuncs}

FunctionModules ==
    {MkModule(SCHEMA_VERSION, e, fs, <<Text(<<65>>)>>) :
        e \in 0..(MaxFuncs + 1), fs \in FunctionLists}

ViewModules == StringModules \cup ValueModules \cup FunctionModules

Contexts == {"function name", "gate name", "metadata name"}

U16Max == 2^16 - 1

Call(op, idx, ctx) == [op |-> op, idx |-> idx, ctx |-> ctx, dir |-> "none"]

InitView ==
    /\ view \in ViewModules
    /\ call = NoCall
    /\ ret = NoRet
    /\ buf = <<>>
    /\ msgs = <<>>
    /\ slice = <<>>
    /\ stream = <<>>
    /\ sliceRes = <<>>
    /\ readRes = <<>>
    /\ limiter = MaxTraversal

Frame == UNCHANGED <<buf, msgs, slice, stream, sliceRes, readRes, view, limiter>>

\* module.strings().get(idx, context)
StringsGet ==
    \E idx \in (0..(MaxStrings + 1)) \cup {U16Max} : \E ctx \in Contexts :
        /\ call' = Call("StringTable::get", idx, ctx)
        /\ ret' = StringTable_get(Module_strings(view), idx, ctx)
        /\ Frame

\* module.strings().len()
StringsLen ==
    /\ call' = Call("StringTable::len", 0, "")
    /\ ret' = RetOk(StringTable_len(Module_strings(view)))
    /\ Frame

\* The value table of the module's first function, a definition.
FirstValues == FunctionDefinition_values(Module_function(view, 0).val)

HasFirstValues ==
    /\ Module_function_count(view) > 0
    /\ Module_function(view, 0).val.kind = "Definition"

\* def.values().get(idx)
ValuesGet ==
    /\ HasFirstValues
    /\ \E idx \in 0..(MaxValues + 1) :
          /\ call' = Call("ValueTable::get", idx, "")
          /\ ret' = ValueTable_get(FirstValues, idx)
          /\ Frame

\* def.values().len()
ValuesLen ==
    /\ HasFirstValues
    /\ call' = Call("ValueTable::len", 0, "")
    /\ ret' = RetOk(ValueTable_len(FirstValues))
    /\ Frame

\* the pairs yielded by iterating def.values()
ValuesIter ==
    /\ HasFirstValues
    /\ call' = Call("ValueTable::iter", 0, "")
    /\ ret' = RetOk(ValueTable_iter(FirstValues))
    /\ Frame

\* module.entrypoint()
Entrypoint ==
    /\ call' = Call("Module::entrypoint", 0, "")
    /\ ret' = Module_entrypoint(view)
    /\ Frame

\* module.functions().nth(n)
FunctionsNth ==
    \E n \in 0..(MaxFuncs + 1) :
        /\ call' = Call("Module::functions.nth", n, "")
        /\ ret' = nth(Module_functions(view), n)
        /\ Frame

\* module.function(n)
Function ==
    \E n \in 0..(MaxFuncs + 1) :
        /\ call' = Call("Module::function", n, "")
        /\ ret' = Module_function(view, n)
        /\ Frame

\* module.try_function(n)
TryFunction ==
    \E n \in 0..(MaxFuncs + 1) :
        /\ call' = Call("Module::try_function", n, "")
        /\ ret' = Module_try_function(view, n)
        /\ Frame

NextView ==
    \/ StringsGet
    \/ StringsLen
    \/ ValuesGet
    \/ ValuesLen
    \/ ValuesIter
    \/ Entrypoint
    \/ FunctionsNth
    \/ Function
    \/ TryFunction

SpecView == InitView /\ [][NextView]_vars

(***************************************************************************)
(* The functions, regions and operations the boundary accessors are run on *)
(***************************************************************************)
\* The type of the k-th value of a table (all different).
GraphType(k) ==
    CASE k % 3 = 0 -> EncType("qubit", 0)
      [] k % 3 = 1 -> EncType("int", k)
      [] OTHER -> EncType("float", "float32")

\* n values, the first of them of type GraphType(off).
GraphValues(n, off) == [k \in 1..n |-> EncValue(GraphType(k - 1 + off))]

GraphValueTables == {GraphValues(n, 0) : n \in 1..MaxValues}

\* Lists of value ids; the id MaxValues is outside every table.
BoundaryLists == UNION {[1..n -> 0..MaxValues] : n \in 0..MaxBoundary}

OtherBoundaryLists == {<<0>>, <<1, 0>>}

\* jeff_capnp::op::instruction as encoded: the union discriminant and payload.
EncInstruction(which, payload) == [which |-> which, payload |-> payload]

\* Regions with a boundary and no operation, and regions without boundary
\* holding one operation with a boundary.
GraphRegions ==
    {EncRegion(s, t, <<>>, <<>>) : s \in BoundaryLists, t \in OtherBoundaryLists}
        \cup {EncRegion(<<>>, <<>>,
                        <<EncOp(EncInstruction("qureg", EncVariant("alloc", 0)), i, o, <<>>)>>, <<>>) :
                  i \in OtherBoundaryLists, o \in BoundaryLists}

GraphDefinitions ==
    {EncFunction("definition", 0, vs, r, <<>>, <<>>, <<>>) :
        vs \in GraphValueTables, r \in GraphRegions}

GraphDeclarations ==
    {EncFunction("declaration", 0, <<>>, DefaultRegion,
                 GraphValues(a, 0), GraphValues(b, 1), <<>>) :
        a \in 0..MaxValues, b \in 0..MaxValues}

GraphModules ==
    {MkModule(SCHEMA_VERSION, 0, <<f>>, <<Text(<<65>>)>>) :
        f \in GraphDefinitions \cup GraphDeclarations}

\* Indices handed to the accessors: around the boundary length, and 2^32.
GraphIndices == {Usize(0, k) : k \in 0..(MaxBoundary + 1)} \cup {Usize(1, 0)}

DirCall(op, dir, idx) == [op |-> op, idx |-> idx, ctx |-> "", dir |-> dir]

InitGraph ==
    /\ view \in GraphModules
    /\ call = NoCall
    /\ ret = NoRet
    /\ buf = <<>>
    /\ msgs = <<>>
    /\ slice = <<>>
    /\ stream = <<>>
    /\ sliceRes = <<>>
    /\ readRes = <<>>
    /\ limiter = MaxTraversal

\* let f = module.function(0);
F0 == Module_function(view, 0).val

IsDefinition == F0.kind = "Definition"

\* let body = def.body();
Body == FunctionDefinition_body(F0)

HasOp == IsDefinition /\ Len(Region_operations(Body)) > 0

\* let op = body.operation(0);
Op0 == Region_operation(Body, Usize(0, 0)).val

\* f.input_types()
InputTypes ==
    /\ call' = Call("Function::input_types", 0, "")
    /\ ret' = RetOk(Function_input_types(F0))
    /\ Frame

\* f.output_types()
OutputTypes ==
    /\ call' = Call("Function::output_types", 0, "")
    /\ ret' = RetOk(Function_output_types(F0))
    /\ Frame

\* body.boundary(dir)
BodyBoundary ==
    /\ IsDefinition
    /\ \E dir \in Directions :
          /\ call' = DirCall("Region::boundary", dir, 0)
          /\ ret' = RetOk(Region_boundary(Body, dir))
          /\ Frame

\* body.sources()
BodySources ==
    /\ IsDefinition
    /\ call' = Call("Region::sources", 0, "")
    /\ ret' = RetOk(Region_sources(Body))
    /\ Frame

\* body.targets()
BodyTargets ==
    /\ IsDefinition
    /\ call' = Call("Region::targets", 0, "")
    /\ ret' = RetOk(Region_targets(Body))
    /\ Frame

\* body.boundary_count(dir)
BodyBoundaryCount ==
    /\ IsDefinition
    /\ \E dir \in Directions :
          /\ call' = DirCall("Region::boundary_count", dir, 0)
          /\ ret' = RetOk(Region_boundary_count(Body, dir))
          /\ Frame

\* body.source_count()
BodySourceCount ==
    /\ IsDefinition
    /\ call' = Call("Region::source_count", 0, "")
    /\ ret' = RetOk(Region_source_count(Body))
    /\ Frame

\* body.target_count()
BodyTargetCount ==
    /\ IsDefinition
    /\ call' = Call("Region::target_count", 0, "")
    /\ ret' = RetOk(Region_target_count(Body))
    /\ Frame

\* body.boundary_value(dir, idx)
BodyBoundaryValue ==
    /\ IsDefinition
    /\ \E dir \in Directions : \E idx \in GraphIndices :
          /\ call' = DirCall("Region::boundary_value", dir, idx)
          /\ ret' = Region_boundary_value(Body, dir, idx)
          /\ Frame

\* body.source(idx)
BodySource ==
    /\ IsDefinition
    /\ \E idx \in GraphIndices :
          /\ call' = Call("Region::source", idx, "")
          /\ ret' = Region_source(Body, idx)
          /\ Frame

\* body.target(idx)
BodyTarget ==
    /\ IsDefinition
    /\ \E idx \in GraphIndices :
          /\ call' = Call("Region::target", idx, "")
          /\ ret' = Region_target(Body, idx)
          /\ Frame

\* op.boundary(dir)
OpBoundary ==
    /\ HasOp
    /\ \E dir \in Directions :
          /\ call' = DirCall("Operation::boundary", dir, 0)
          /\ ret' = RetOk(Operation_boundary(Op0, dir))
          /\ Frame

\* op.inputs()
OpInputs ==
    /\ HasOp
    /\ call' = Call("Operation::inputs", 0, "")
    /\ ret' = RetOk(Operation_inputs(Op0))
    /\ Frame

\* op.outputs()
OpOutputs ==
    /\ HasOp
    /\ call' = Call("Operation::outputs", 0, "")
    /\ ret' = RetOk(Operation_outputs(Op0))
    /\ Frame

\* op.boundary_count(dir)
OpBoundaryCount ==
    /\ HasOp
    /\ \E dir \in Directions :
          /\ call' = DirCall("Operation::boundary_count", dir, 0)
          /\ ret' = RetOk(Operation_boundary_count(Op0, dir))
          /\ Frame

\* op.input_count()
OpInputCount ==
    /\ HasOp
    /\ call' = Call("Operation::input_count", 0, "")
    /\ ret' = RetOk(Operation_input_count(Op0))
    /\ Frame

\* op.output_count()
OpOutputCount ==
    /\ HasOp
    /\ call' = Call("Operation::output_count", 0, "")
    /\ ret' = RetOk(Operation_output_count(Op0))
    /\ Frame

\* op.input_types()
OpInputTypes ==
    /\ HasOp
    /\ call' = Call("Operation::input_types", 0, "")
    /\ ret' = RetOk(Operation_input_types(Op0))
    /\ Frame

\* op.output_types()
OpOutputTypes ==
    /\ HasOp
    /\ call' = Call("Operation::output_types", 0, "")
    /\ ret' = RetOk(Operation_output_types(Op0))
    /\ Frame

\* op.boundary_value(dir, idx)
OpBoundaryValue ==
    /\ HasOp
    /\ \E dir \in Directions : \E idx \in GraphIndices :
          /\ call' = DirCall("Operation::boundary_value", dir, idx)
          /\ ret' = Operation_boundary_value(Op0, dir, idx)
          /\ Frame

\* op.input(idx)
OpInput ==
    /\ HasOp
    /\ \E idx \in GraphIndices :
          /\ call' = Call("Operation::input", idx, "")
          /\ ret' = Operation_input(Op0, idx)
          /\ Frame

\* op.output(idx)
OpOutput ==
    /\ HasOp
    /\ \E idx \in GraphIndices :
          /\ call' = Call("Operation::output", idx, "")
          /\ ret' = Operation_output(Op0, idx)
          /\ Frame

NextGraph ==
    \/ InputTypes
    \/ OutputTypes
    \/ BodyBoundary
    \/ BodySources
    \/ BodyTargets
    \/ BodyBoundaryCount
    \/ BodySourceCount
    \/ BodyTargetCount
    \/ BodyBoundaryValue
    \/ BodySource
    \/ BodyTarget
    \/ OpBoundary
    \/ OpInputs
    \/ OpOutputs
    \/ OpBoundaryCount
    \/ OpInputCount
    \/ OpOutputCount
    \/ OpBoundaryValue
    \/ OpInput
    \/ OpOutput
    \/ OpInputTypes
    \/ OpOutputTypes

SpecGraph == InitGraph /\ [][NextGraph]_vars

(***************************************************************************)
(* The operations the switch and gate accessors are run on                 *)
(***************************************************************************)
\* The k-th branch of a switch (all different), and its default region.
BranchRegion(k) == EncRegion(<<k>>, <<>>, <<>>, <<>>)
DefaultBranchRegion == EncRegion(<<>>, <<0>>, <<>>, <<>>)

\* Switches with 0..MaxBranches branches whose default pointer is null, a
\* region, or not a struct pointer.
SwitchInstructions ==
    {EncInstruction("scf",
         EncScf("switch", EncSwitch([k \in 1..n |-> BranchRegion(k - 1)], d))) :
        n \in 0..MaxBranches, d \in {NullPtr, StructPtr(DefaultBranchRegion), BadPtr}}

\* u8 fields: the ends of the range and a value inside.
ControlCounts == {0, 1, 255}
CustomCounts == {0, 2, 255}
Powers == {1, 2}

PauliStrings == UNION {[1..n -> {"x", "i"}] : n \in 0..MaxPaulis}

GateInstructions ==
    {EncInstruction("qubit", EncQubitOp("gate", EncGate(g[1], g[2], c, a, p))) :
        g \in ({"wellKnown"} \X CapnpWellKnownGates)
                \cup ({"custom"} \X {EncCustom(0, q, n) : q \in CustomCounts, n \in CustomCounts})
                \cup ({"ppr"} \X PauliStrings),
        c \in ControlCounts, a \in BOOLEAN, p \in Powers}

OpsModules ==
    {MkModule(SCHEMA_VERSION, 0,
              <<EncFunction("definition", 0, GraphValues(1, 0),
                            EncRegion(<<>>, <<>>, <<EncOp(i, <<>>, <<>>, <<>>)>>, <<>>),
                            <<>>, <<>>, <<>>)>>,
              <<Text(<<65>>)>>) :
        i \in SwitchInstructions \cup GateInstructions}

\* Indices handed to branch and try_branch: around the branch count, 2^32 and
\* 2^32 + 1.
OpsIndices == {Usize(0, k) : k \in 0..(MaxBranches + 1)} \cup {Usize(1, 0), Usize(1, 1)}

InitOps ==
    /\ view \in OpsModules
    /\ call = NoCall
    /\ ret = NoRet
    /\ buf = <<>>
    /\ msgs = <<>>
    /\ slice = <<>>
    /\ stream = <<>>
    /\ sliceRes = <<>>
    /\ readRes = <<>>
    /\ limiter = MaxTraversal

\* let op_type = op.op_type();
OpType0 == Operation_op_type(Op0).val

is_switch(op_type) == op_type.tag = "ControlFlowOp" /\ op_type.op.tag = "Switch"

is_gate(op_type) == op_type.tag = "QubitOp" /\ op_type.op.tag = "Gate"

IsSwitch == is_switch(OpType0)

\* if let OpType::ControlFlowOp(ControlFlowOp::Switch(switch)) = op_type
Switch0 == OpType0.op.switch

IsGate == is_gate(OpType0)

\* if let OpType::QubitOp(QubitOp::Gate(gate)) = op_type
Gate0 == OpType0.op.gate

\* switch.branches()
SwitchBranches ==
    /\ IsSwitch
    /\ call' = Call("SwitchOp::branches", 0, "")
    /\ ret' = RetOk(SwitchOp_branches(Switch0))
    /\ Frame

\* switch.branch_count()
SwitchBranchCount ==
    /\ IsSwitch
    /\ call' = Call("SwitchOp::branch_count", 0, "")
    /\ ret' = RetOk(SwitchOp_branch_count(Switch0))
    /\ Frame

\* switch.branch(n)
SwitchBranch ==
    /\ IsSwitch
    /\ \E n \in OpsIndices :
          /\ call' = Call("SwitchOp::branch", n, "")
          /\ ret' = SwitchOp_branch(Switch0, n)
          /\ Frame

\* switch.try_branch(n)
SwitchTryBranch ==
    /\ IsSwitch
    /\ \E n \in OpsIndices :
          /\ call' = Call("SwitchOp::try_branch", n, "")
          /\ ret' = SwitchOp_try_branch(Switch0, n)
          /\ Frame

\* switch.default_branch()
SwitchDefaultBranch ==
    /\ IsSwitch
    /\ call' = Call("SwitchOp::default_branch", 0, "")
    /\ ret' = SwitchOp_default_branch(Switch0)
    /\ Frame

\* gate.num_qubits()
GateNumQubits ==
    /\ IsGate
    /\ call' = Call("GateOp::num_qubits", 0, "")
    /\ ret' = RetOk(GateOp_num_qubits(Gate0))
    /\ Frame

\* gate.num_params()
GateNumParams ==
    /\ IsGate
    /\ call' = Call("GateOp::num_params", 0, "")
    /\ ret' = RetOk(GateOp_num_params(Gate0))
    /\ Frame

NextOps ==
    \/ SwitchBranches
    \/ SwitchBranchCount
    \/ SwitchBranch
    \/ SwitchTryBranch
    \/ SwitchDefaultBranch
    \/ GateNumQubits
    \/ GateNumParams

SpecOps == InitOps /\ [][NextOps]_vars

(***************************************************************************)
(* reader/metadata.rs                                                      *)
(***************************************************************************)
Metadata_try_read_capnp(meta, strings) ==
    LET name == StringTable_get(strings, meta.name, "metadata name")
    IN  IF name.tag # "Ok" THEN name
        ELSE RetOk([name |-> name.val, value |-> meta.value])

Metadata_read_capnp(meta, strings) ==
    unwrap_or_panic(Metadata_try_read_capnp(meta, strings))

\* Metadata::name
Metadata_name(m) == m.name

\* HasMetadataSealed::metadata_reader of each metadata-bearing view.
HasMetadata_metadata_reader(kind, self) ==
    CASE kind = "Module" -> self.metadata
      [] kind = "Function" -> self.function.metadata
      [] kind = "Region" -> self.region.metadata
      [] kind = "Operation" -> self.op.metadata
      [] kind = "Value" -> self.metadata

\* HasMetadataSealed::strings of each metadata-bearing view.
HasMetadata_strings(kind, self) ==
    IF kind = "Module" THEN Module_strings(self) ELSE self.strings

\* The items of the iterator returned by metadata_entries, in order.
HasMetadata_metadata_entries(kind, self) ==
    [k \in 1..Len(HasMetadata_metadata_reader(kind, self)) |->
        Metadata_read_capnp(HasMetadata_metadata_reader(kind, self)[k], HasMetadata_strings(kind, self))]

HasMetadata_metadata_count(kind, self) == as_usize(Len(HasMetadata_metadata_reader(kind, self)))

\* struct_list::Reader::get asserts that the index is in range.
HasMetadata_metadata(kind, self, n) ==
    IF as_u32(n) >= Len(HasMetadata_metadata_reader(kind, self)) THEN RetPanic
    ELSE Metadata_read_capnp(HasMetadata_metadata_reader(kind, self)[as_u32(n) + 1],
                             HasMetadata_strings(kind, self))

ok_or_none(r) == IF r.tag = "Ok" THEN r ELSE RetNone

HasMetadata_try_metadata_none_on_bad_name(kind, self, n) ==
    IF as_u32(n) >= Len(HasMetadata_metadata_reader(kind, self)) THEN RetNone
    ELSE ok_or_none(Metadata_try_read_capnp(
                        HasMetadata_metadata_reader(kind, self)[as_u32(n) + 1],
                        HasMetadata_strings(kind, self)))

HasMetadata_try_metadata(kind, self, n) ==
    IF as_u32(n) >= Len(HasMetadata_metadata_reader(kind, self)) THEN RetNone
    ELSE Metadata_read_capnp(HasMetadata_metadata_reader(kind, self)[as_u32(n) + 1],
                             HasMetadata_strings(kind, self))

(***************************************************************************)
(* The views the metadata accessors are run on                             *)
(***************************************************************************)
MetaKinds == {"Module", "Function", "Region", "Operation", "Value"}

\* n entries, all different, named by the two strings of the module in turn.
MetaList(n) == [k \in 1..n |-> EncMeta((k - 1) % 2, k)]

\* The list every other view of the module carries.
OtherMeta == <<EncMeta(1, 9)>>

\* A module whose view of the given kind carries md.
MetaModule(kind, md) ==
    LET At(k) == IF k = kind THEN md ELSE OtherMeta
        value == [type |-> EncType("qubit", 0), metadata |-> At("Value")]
        op == EncOp(EncInstruction("qureg", EncVariant("alloc", 0)), <<>>, <<>>, At("Operation"))
        body == EncRegion(<<>>, <<>>, <<op>>, At("Region"))
        f == EncFunction("definition", 0, <<value>>, body, <<>>, <<>>, At("Function"))
    IN  [MkModule(SCHEMA_VERSION, 0, <<f>>, <<Text(<<65>>), Text(<<195, 169>>)>>)
            EXCEPT !.metadata = At("Module")]

MetaModules == {MetaModule(kind, MetaList(n)) : kind \in MetaKinds, n \in 0..MaxMeta}

\* Indices handed to metadata and try_metadata: around the count, 2^32 and
\* 2^32 + 1.
MetaIndices == {Usize(0, k) : k \in 0..(MaxMeta + 1)} \cup {Usize(1, 0), Usize(1, 1)}

InitMeta ==
    /\ view \in MetaModules
    /\ call = NoCall
    /\ ret = NoRet
    /\ buf = <<>>
    /\ msgs = <<>>
    /\ slice = <<>>
    /\ stream = <<>>
    /\ sliceRes = <<>>
    /\ readRes = <<>>
    /\ limiter = MaxTraversal

\* The view of the given kind reached from the module.
Self(kind) ==
    CASE kind = "Module" -> view
      [] kind = "Function" -> F0
      [] kind = "Region" -> Body
      [] kind = "Operation" -> Op0
      [] kind = "Value" -> ValueTable_get(FunctionDefinition_values(F0), 0).val

\* x.metadata_count()
MetadataCount ==
    \E kind \in MetaKinds :
        /\ call' = Call("HasMetadata::metadata_count", 0, kind)
        /\ ret' = RetOk(HasMetadata_metadata_count(kind, Self(kind)))
        /\ Frame

\* x.metadata(n)
Metadata ==
    \E kind \in MetaKinds : \E n \in MetaIndices :
        /\ call' = Call("HasMetadata::metadata", n, kind)
        /\ ret' = HasMetadata_metadata(kind, Self(kind), n)
        /\ Frame

\* x.try_metadata(n)
TryMetadata ==
    \E kind \in MetaKinds : \E n \in MetaIndices :
        /\ call' = Call("HasMetadata::try_metadata", n, kind)
        /\ ret' = HasMetadata_try_metadata(kind, Self(kind), n)
        /\ Frame

\* x.metadata_entries()
MetadataEntries ==
    \E kind \in MetaKinds :
        /\ call' = Call("HasMetadata::metadata_entries", 0, kind)
        /\ ret' = RetOk(HasMetadata_metadata_entries(kind, Self(kind)))
        /\ Frame

\* if let Some(m) = x.try_metadata(n) { m.name() }
name_of(m) == IF m.tag = "Ok" THEN RetOk(Metadata_name(m.val)) ELSE m

MetadataName ==
    \E kind \in MetaKinds : \E n \in MetaIndices :
        /\ call' = Call("Metadata::name", n, kind)
        /\ ret' = name_of(HasMetadata_try_metadata(kind, Self(kind), n))
        /\ Frame

NextMeta ==
    \/ MetadataCount
    \/ Metadata
    \/ TryMetadata
    \/ MetadataEntries
    \/ MetadataName

SpecMeta == InitMeta /\ [][NextMeta]_vars

\* A string table whose string 1 is not UTF-8; index 2 is outside it.
NameStrings == <<Text(<<65>>), Text(<<255>>)>>

\* Lists of entries, all different, named by every choice of the indices 0..2.
NameLists ==
    {[k \in DOMAIN names |-> EncMeta(names[k], k)] :
        names \in UNION {[1..n -> 0..2] : n \in 1..MaxMeta}}

NameModules ==
    {[MetaModule(kind, md) EXCEPT !.strings = NameStrings] :
        kind \in MetaKinds, md \in NameLists}

InitMetaNames ==
    /\ view \in NameModules
    /\ call = NoCall
    /\ ret = NoRet
    /\ buf = <<>>
    /\ msgs = <<>>
    /\ slice = <<>>
    /\ stream = <<>>
    /\ sliceRes = <<>>
    /\ readRes = <<>>
    /\ limiter = MaxTraversal

SpecMetaNames == InitMetaNames /\ [][NextMeta]_vars

(***************************************************************************)
(* The operations op_type is run on                                        *)
(***************************************************************************)
\* A discriminant or enumerant that is not in the schema.
Unknown == "unknown"

WithUnknown(table) == DOMAIN table \cup {Unknown}

\* Literals of the constant-bearing variants, and constant arrays.
Literals == {0, 7}
ListPtrs == {ListPtr(<<>>), ListPtr(<<1, 2>>), BadListPtr}

\* Two regions that differ, for the fields of the loops.
ConditionRegion == EncRegion(<<0>>, <<>>, <<>>, <<>>)
BodyRegion == EncRegion(<<>>, <<0>>, <<>>, <<>>)

\* The gate of a qubit operation that is not a gate (the default gate).
DefaultGate == EncGate("wellKnown", "gphase", 0, FALSE, 0)

\* Custom gates named by string 0 (valid), 1 (not UTF-8) and 2 (out of range).
DecodeGates ==
    {EncGate("custom", EncCustom(name, 1, 0), 0, FALSE, 1) : name \in 0..2}
        \cup {EncGate("wellKnown", "x", 0, FALSE, 1), EncGate("ppr", <<"x">>, 0, FALSE, 1)}

\* Function-table indices of a call: inside the table, just outside, the
\* largest u16.
FuncIndices == {0, 1, 2, U16Max}

QubitInstructions ==
    {EncInstruction("qubit", EncQubitOp(w, DefaultGate)) : w \in WithUnknown(QubitOpVariants)}
        \cup {EncInstruction("qubit", EncQubitOp("gate", g)) : g \in DecodeGates}

QuregInstructions ==
    {EncInstruction("qureg", EncVariant(w, 0)) : w \in WithUnknown(QubitRegisterOpVariants)}

IntInstructions ==
    {EncInstruction("int", EncVariant(w, v)) : w \in DOMAIN IntOpConsts, v \in Literals}
        \cup {EncInstruction("int", EncVariant(w, 0)) : w \in WithUnknown(IntOpVariants)}

IntArrayInstructions ==
    {EncInstruction("intArray", EncVariant(w, l)) :
        w \in DOMAIN IntArrayOpConsts, l \in ListPtrs}
        \cup {EncInstruction("intArray", EncVariant("zero", v)) : v \in Literals}
        \cup {EncInstruction("intArray", EncVariant(w, 0)) : w \in WithUnknown(ArrayOpVariants)}

FloatInstructions ==
    {EncInstruction("float", EncVariant(w, v)) : w \in DOMAIN FloatOpConsts, v \in Literals}
        \cup {EncInstruction("float", EncVariant(w, 0)) : w \in WithUnknown(FloatOpVariants)}

FloatArrayInstructions ==
    {EncInstruction("floatArray", EncVariant(w, l)) :
        w \in DOMAIN FloatOpConsts, l \in ListPtrs}
        \cup {EncInstruction("floatArray", EncVariant("zero", v)) :
                v \in {"float32", "float64", Unknown}}
        \cup {EncInstruction("floatArray", EncVariant(w, 0)) :
                w \in WithUnknown(ArrayOpVariants)}

ScfInstructions ==
    {EncInstruction("scf", EncScf("switch", EncSwitch(<<ConditionRegion>>, NullPtr))),
     EncInstruction("scf", EncScf("for", BodyRegion)),
     EncInstruction("scf", EncScf("while", EncLoop(ConditionRegion, BodyRegion))),
     EncInstruction("scf", EncScf("doWhile", EncLoop(ConditionRegion, BodyRegion))),
     EncInstruction("scf", EncScf(Unknown, 0))}

FuncInstructions == {EncInstruction("func", f) : f \in FuncIndices}

DecodeInstructions ==
    QubitInstructions \cup QuregInstructions \cup IntInstructions
        \cup IntArrayInstructions \cup FloatInstructions \cup FloatArrayInstructions
        \cup ScfInstructions \cup FuncInstructions \cup {EncInstruction(Unknown, 0)}

\* One function whose body holds one operation; value 0 exists, value 3 does
\* not; string 0 is "A", string 1 is not UTF-8, string 2 does not exist.
DecodeModules ==
    {MkModule(SCHEMA_VERSION, 0,
              <<EncFunction("definition", 0, GraphValues(1, 0),
                            EncRegion(<<>>, <<>>, <<EncOp(i, <<0, 3>>, <<3>>, <<>>)>>, <<>>),
                            <<>>, <<>>, <<>>)>>,
              <<Text(<<65>>), Text(<<255>>)>>) :
        i \in DecodeInstructions}

InitDecode ==
    /\ view \in DecodeModules
    /\ call = NoCall
    /\ ret = NoRet
    /\ buf = <<>>
    /\ msgs = <<>>
    /\ slice = <<>>
    /\ stream = <<>>
    /\ sliceRes = <<>>
    /\ readRes = <<>>
    /\ limiter = MaxTraversal

\* op.op_type()
DecodeOpType ==
    /\ call' = Call("Operation::op_type", 0, "")
    /\ ret' = Operation_op_type(Op0)
    /\ Frame

\* op.input(n)
DecodeInput ==
    \E n \in 0..2 :
        /\ call' = Call("Operation::input", Usize(0, n), "")
        /\ ret' = Operation_input(Op0, Usize(0, n))
        /\ Frame

\* module.strings().get(idx, "gate name")
DecodeString ==
    \E idx \in 0..2 :
        /\ call' = Call("StringTable::get", idx, "gate name")
        /\ ret' = StringTable_get(Module_strings(view), idx, "gate name")
        /\ Frame

\* def.values().get(id)
DecodeValue ==
    \E id \in {0, 3} :
        /\ call' = Call("ValueTable::get", id, "")
        /\ ret' = ValueTable_get(FunctionDefinition_values(F0), id)
        /\ Frame

NextDecode ==
    \/ DecodeOpType
    \/ DecodeInput
    \/ DecodeString
    \/ DecodeValue

SpecDecode == InitDecode /\ [][NextDecode]_vars

(***************************************************************************)
(* The nested regions the traversal is run on                              *)
(***************************************************************************)
\* Regions without operations, told apart by their source id.
Leaf(k) == EncRegion(<<k>>, <<>>, <<>>, <<>>)

NestOp(instruction) == EncOp(instruction, <<>>, <<>>, <<>>)

\* A region holding one while loop over two leaves.
InnerLoop ==
    EncRegion(<<>>, <<>>,
              <<NestOp(EncInstruction("scf", EncScf("while", EncLoop(Leaf(3), Leaf(4)))))>>,
              <<>>)

\* A switch with two branches and a default, the three loops, and an
\* operation that is not control flow.
NestInstructions ==
    {EncInstruction("scf", EncScf("switch",
         EncSwitch(<<Leaf(0), InnerLoop>>, StructPtr(Leaf(2))))),
     EncInstruction("scf", EncScf("for", InnerLoop)),
     EncInstruction("scf", EncScf("while", EncLoop(Leaf(5), InnerLoop))),
     EncInstruction("scf", EncScf("doWhile", EncLoop(InnerLoop, Leaf(6)))),
     EncInstruction("qureg", EncVariant("alloc", 0))}

NestBodies ==
    {EncRegion(<<>>, <<>>, [k \in DOMAIN is |-> NestOp(is[k])], <<>>) :
        is \in UNION {[1..n -> NestInstructions] : n \in 0..MaxOps}}

\* The body of the second function: one for loop over a leaf.
OtherBody ==
    EncRegion(<<>>, <<>>, <<NestOp(EncInstruction("scf", EncScf("for", Leaf(7))))>>, <<>>)

\* Two definitions with different value tables.
NestModules ==
    {MkModule(SCHEMA_VERSION, 0,
              <<EncFunction("definition", 0, GraphValues(1, 0), b, <<>>, <<>>, <<>>),
                EncFunction("definition", 0, GraphValues(2, 1), OtherBody,
                            <<>>, <<>>, <<>>)>>,
              <<Text(<<65>>)>>) :
        b \in NestBodies}

\* Indices handed to operation: around the count, 2^32 and 2^32 + 1.
NestIndices == {Usize(0, k) : k \in 0..(MaxOps + 1)} \cup {Usize(1, 0), Usize(1, 1)}

\* The region of a control-flow operation a traversal step enters.
Selectors ==
    {[kind |-> "branch", n |-> 0], [kind |-> "branch", n |-> 1],
     [kind |-> "default", n |-> 0], [kind |-> "region", n |-> 0],
     [kind |-> "condition", n |-> 0], [kind |-> "body", n |-> 0]}

\* A traversal step: the operation of the current region and the region of
\* that operation to enter.
Steps == {[op |-> n, into |-> sel] : n \in 0..(MaxOps - 1), sel \in Selectors}

\* The bodies nest regions two deep: the paths of no, one and two steps.
Paths == {<<>>} \cup {<<s>> : s \in Steps} \cup {<<s, t>> : s \in Steps, t \in Steps}

\* match control flow op { Switch(sw) => sw.try_branch(n) / sw.default_branch(),
\* For { region } => region, While / DoWhile { condition, body } => ... }
SelectRegion(cf, into) ==
    CASE cf.tag = "Switch" /\ into.kind = "branch" ->
             SwitchOp_try_branch(cf.switch, Usize(0, into.n))
      [] cf.tag = "Switch" /\ into.kind = "default" -> SwitchOp_default_branch(cf.switch)
      [] cf.tag = "For" /\ into.kind = "region" -> RetOk(cf.region)
      [] cf.tag \in {"While", "DoWhile"} /\ into.kind = "condition" -> RetOk(cf.condition)
      [] cf.tag \in {"While", "DoWhile"} /\ into.kind = "body" -> RetOk(cf.body)
      [] OTHER -> RetNone

\* if let OpType::ControlFlowOp(cf) = op.op_type()
Select(op_type, into) ==
    IF op_type.tag # "Ok" THEN op_type
    ELSE IF op_type.val.tag # "ControlFlowOp" THEN RetNone
    ELSE SelectRegion(op_type.val.op, into)

\* if n < region.operation_count() { region.operation(n) }
Enter(r, step) ==
    IF step.op >= Len(Region_operations(r)) THEN RetNone
    ELSE Select(Operation_op_type(Region_operation(r, Usize(0, step.op)).val), step.into)

\* The region reached from r along a path, if the path exists.
RECURSIVE Walk(_, _)
Walk(r, path) ==
    IF path = <<>> \/ r.tag # "Ok" THEN r
    ELSE Walk(Enter(r.val, Head(path)), Tail(path))

InitNest ==
    /\ view \in NestModules
    /\ call = NoCall
    /\ ret = NoRet
    /\ buf = <<>>
    /\ msgs = <<>>
    /\ slice = <<>>
    /\ stream = <<>>
    /\ sliceRes = <<>>
    /\ readRes = <<>>
    /\ limiter = MaxTraversal

\* let body = module.function(f).body();
BodyOf(f) == FunctionDefinition_body(Module_function(view, f).val)

\* body.operations()
NestOperations ==
    /\ call = NoCall
    /\ \E f \in 0..1 :
        /\ call' = Call("Region::operations", 0, f)
        /\ ret' = RetOk(Region_operations(BodyOf(f)))
        /\ Frame

\* body.operation_count()
NestOperationCount ==
    /\ call = NoCall
    /\ \E f \in 0..1 :
        /\ call' = Call("Region::operation_count", 0, f)
        /\ ret' = RetOk(Region_operation_count(BodyOf(f)))
        /\ Frame

\* body.operation(n)
NestOperation ==
    /\ call = NoCall
    /\ \E f \in 0..1 : \E n \in NestIndices :
        /\ call' = Call("Region::operation", n, f)
        /\ ret' = Region_operation(BodyOf(f), n)
        /\ Frame

\* A traversal from the body of function f into nested regions.
NestWalk ==
    /\ call = NoCall
    /\ \E f \in 0..1 : \E path \in Paths :
        /\ call' = Call("walk", path, f)
        /\ ret' = Walk(RetOk(BodyOf(f)), path)
        /\ Frame

NextNest ==
    \/ NestOperations
    \/ NestOperationCount
    \/ NestOperation
    \/ NestWalk

SpecNest == InitNest /\ [][NextNest]_vars

(***************************************************************************)
(* The read limiter of the message reader                                  *)
(* Jeff::read_slice and Jeff::read build the reader with                   *)
(* ReaderOptions::new(), whose traversal limit is 8 * 1024 * 1024 words;   *)
(* MaxTraversal stands for it, and every element of a list and every       *)
(* struct or text a pointer leads to counts one word.                      *)
(***************************************************************************)
\* ReadLimiter::can_read: the words are taken from the limit, or the read
\* fails and the limit stays.
can_read(limit, amount) ==
    IF amount > limit THEN [ok |-> FALSE, limit |-> limit]
    ELSE [ok |-> TRUE, limit |-> limit - amount]

\* The pointers an accessor follows one after the other; the first read that
\* fails ends it.
RECURSIVE read_all(_, _)
read_all(limit, amounts) ==
    IF amounts = <<>> THEN [ok |-> TRUE, limit |-> limit]
    ELSE IF ~can_read(limit, Head(amounts)).ok THEN can_read(limit, Head(amounts))
    ELSE read_all(can_read(limit, Head(amounts)).limit, Tail(amounts))

(***************************************************************************)
(* Several readers on one loaded module                                    *)
(***************************************************************************)
Readers == {1, 2}

NoView == [kind |-> "none"]

\* What a reader did last: the accessor and its argument, the derived view
\* the reader holds, the result of the first of the calls it repeated, and
\* the words its own calls had taken before this one.
ReaderCall(op, idx, held, first, before, used) ==
    [op |-> op, idx |-> idx, held |-> held, first |-> first,
     before |-> before, used |-> used]

ReaderModules ==
    {MkModule(SCHEMA_VERSION, 0,
              <<EncFunction("definition", 0, GraphValues(1, 0),
                            EncRegion(<<>>, <<>>, ops, <<>>), <<>>, <<>>, <<>>)>>,
              strs) :
        ops \in {<<>>, <<EncOp(EncInstruction("qureg", EncVariant("alloc", 0)),
                               <<>>, <<>>, <<>>)>>},
        strs \in {<<Text(<<65>>)>>, <<Text(<<65>>), Text(<<195, 169>>)>>}}

\* The words read by the pointers an accessor follows: get_functions(),
\* get_strings(), the text of a string, get_body(), get_operations().
Words(c) ==
    CASE c.op = "Module::version" -> <<>>
      [] c.op = "Module::function_count" -> <<Len(view.functions)>>
      [] c.op = "Module::function" -> <<Len(view.functions), Len(view.strings)>>
      [] c.op = "StringTable::get" ->
             IF c.idx < Len(view.strings) THEN <<Len(view.strings), 1>>
             ELSE <<Len(view.strings)>>
      [] c.op = "Region::operation_count" ->
             <<1, Len(c.held.function.body.operations)>>

\* What the accessor returns when every read is allowed.
Answer(c) ==
    CASE c.op = "Module::version" -> RetOk(Module_version(view))
      [] c.op = "Module::function_count" -> RetOk(Module_function_count(view))
      [] c.op = "Module::function" -> Module_function(view, c.idx)
      [] c.op = "StringTable::get" -> StringTable_get(Module_strings(view), c.idx, "")
      [] c.op = "Region::operation_count" ->
             RetOk(Region_operation_count(FunctionDefinition_body(c.held)))

\* A failed read is an Err that the accessor unwraps with expect.
Outcome(limit, c) == IF read_all(limit, Words(c)).ok THEN Answer(c) ELSE RetPanic

\* The reader's record after the call c with result res.
After(r, c, res) ==
    ReaderCall(c.op, c.idx, c.held,
               IF c.op = call[r].op /\ c.idx = call[r].idx THEN call[r].first ELSE res,
               call[r].used,
               call[r].used + (limiter - read_all(limiter, Words(c)).limit))

\* The call of reader r to op with idx, on the view the reader holds.
Asks(r, op, idx) == [op |-> op, idx |-> idx, held |-> call[r].held]

InitReaders ==
    /\ view \in ReaderModules
    /\ call = [r \in Readers |-> ReaderCall("none", 0, NoView, NoRet, 0, 0)]
    /\ ret = [r \in Readers |-> NoRet]
    /\ limiter = MaxTraversal
    /\ buf = <<>>
    /\ msgs = <<>>
    /\ slice = <<>>
    /\ stream = <<>>
    /\ sliceRes = <<>>
    /\ readRes = <<>>

ReaderFrame == UNCHANGED <<buf, msgs, slice, stream, sliceRes, readRes, view>>

\* A reader that panicked has ended.
Running(r) == ret[r].tag # "Panic"

\* module.version()
ReaderVersion ==
    \E r \in Readers :
        /\ Running(r)
        /\ ret' = [ret EXCEPT ![r] = Outcome(limiter, Asks(r, "Module::version", 0))]
        /\ call' = [call EXCEPT ![r] = After(r, Asks(r, "Module::version", 0), ret'[r])]
        /\ limiter' = read_all(limiter, Words(Asks(r, "Module::version", 0))).limit
        /\ ReaderFrame

\* module.function_count()
ReaderFunctionCount ==
    \E r \in Readers :
        /\ Running(r)
        /\ ret' = [ret EXCEPT ![r] = Outcome(limiter, Asks(r, "Module::function_count", 0))]
        /\ call' = [call EXCEPT
                      ![r] = After(r, Asks(r, "Module::function_count", 0), ret'[r])]
        /\ limiter' = read_all(limiter, Words(Asks(r, "Module::function_count", 0))).limit
        /\ ReaderFrame

\* let f = module.function(0);
ReaderFunction ==
    \E r \in Readers :
        /\ Running(r)
        /\ ret' = [ret EXCEPT ![r] = Outcome(limiter, Asks(r, "Module::function", 0))]
        /\ call' = [call EXCEPT
                      ![r] = [After(r, Asks(r, "Module::function", 0), ret'[r])
                                 EXCEPT !.held = IF ret'[r].tag = "Ok"
                                                 THEN ret'[r].val ELSE call[r].held]]
        /\ limiter' = read_all(limiter, Words(Asks(r, "Module::function", 0))).limit
        /\ ReaderFrame

\* module.strings().get(idx)
ReaderString ==
    \E r \in Readers : \E idx \in 0..2 :
        /\ Running(r)
        /\ ret' = [ret EXCEPT ![r] = Outcome(limiter, Asks(r, "StringTable::get", idx))]
        /\ call' = [call EXCEPT ![r] = After(r, Asks(r, "StringTable::get", idx), ret'[r])]
        /\ limiter' = read_all(limiter, Words(Asks(r, "StringTable::get", idx))).limit
        /\ ReaderFrame

\* f.body().operation_count()
ReaderOperationCount ==
    \E r \in Readers :
        /\ Running(r)
        /\ call[r].held # NoView
        /\ ret' = [ret EXCEPT ![r] = Outcome(limiter, Asks(r, "Region::operation_count", 0))]
        /\ call' = [call EXCEPT
                      ![r] = After(r, Asks(r, "Region::operation_count", 0), ret'[r])]
        /\ limiter' = read_all(limiter, Words(Asks(r, "Region::operation_count", 0))).limit
        /\ ReaderFrame

\* drop(f)
ReaderDrop ==
    \E r \in Readers :
        /\ Running(r)
        /\ call[r].held # NoView
        /\ call[r].op # "Region::operation_count"
        /\ call' = [call EXCEPT ![r].held = NoView]
        /\ UNCHANGED <<ret, limiter>>
        /\ ReaderFrame

NextReaders ==
    \/ ReaderVersion
    \/ ReaderFunctionCount
    \/ ReaderFunction
    \/ ReaderString
    \/ ReaderOperationCount
    \/ ReaderDrop

SpecReaders == InitReaders /\ [][NextReaders]_vars

(***************************************************************************)
(* Properties of the load entry points                                     *)
(***************************************************************************)
\* The input starts with a complete message.
WellFramed(inp) ==
    /\ inp # <<>>
    /\ inp[1].t = "hdr"
    /\ inp[1].n + 1 <= Len(inp)

\* The root pointer of the first message is a struct pointer or null.
RootDecodes(inp) ==
    /\ WellFramed(inp)
    /\ inp[1].n >= 2
    /\ inp[2].kind \in {"struct", "null"}

\* The module encoded by the first message of a well-formed input.
EncodedModule(inp) == IF inp[2].kind = "null" THEN DefaultModule ELSE inp[3].m

EncodedVersion(inp) == EncodedModule(inp).version

\* The words of the first message of a well-framed input.
FirstMessage(inp) == SubSeq(inp, 1, inp[1].n + 1)

AfterFirstMessage(inp) == SubSeq(inp, inp[1].n + 2, Len(inp))

Entries(log) == {log[i] : i \in 1..Len(log)}

Loadable(msg) == RootDecodes(msg) /\ EncodedVersion(msg) = SCHEMA_VERSION

\* C1: in both entry points a well-formed message of version SCHEMA_VERSION
\* loads and its module reports that version; a well-formed message of any
\* other version v fails with InvalidVersion carrying v.
C1_VersionGate ==
    \A e \in Entries(sliceRes) \cup Entries(readRes) :
        RootDecodes(e.inp) =>
            IF EncodedVersion(e.inp) = SCHEMA_VERSION
            THEN e.res.ok /\ Module_version(module(e.res.jeff)) = SCHEMA_VERSION
            ELSE e.res = InvalidVersion(EncodedVersion(e.inp))

C1_Witness ==
    /\ \E e \in Entries(sliceRes) : e.res.ok /\ EncodedModule(e.inp).entrypoint = 1
    /\ \E e \in Entries(sliceRes) : e.res = InvalidVersion(HighVersion)
    /\ \E e \in Entries(readRes) : e.res.ok /\ EncodedModule(e.inp).entrypoint = 1
    /\ \E e \in Entries(readRes) : e.res = InvalidVersion(HighVersion)

\* C2: in both entry points a message whose framing or root pointer does not
\* decode fails with InvalidFile whatever its version field holds, and
\* InvalidVersion is returned only when the root decoded.
C2_RootBeforeVersion ==
    \A e \in Entries(sliceRes) \cup Entries(readRes) :
        /\ ~RootDecodes(e.inp) => e.res = InvalidFile
        /\ e.res.err = "InvalidVersion" => RootDecodes(e.inp)

BadRootOtherVersion(e) ==
    /\ WellFramed(e.inp)
    /\ e.inp[2].kind = "list"
    /\ e.inp[3].m.version # SCHEMA_VERSION
    /\ e.res = InvalidFile

C2_Witness ==
    /\ \E e \in Entries(sliceRes) : BadRootOtherVersion(e)
    /\ \E e \in Entries(readRes) : BadRootOtherVersion(e)

\* C3: on a buffer of loadable messages laid back to back, the i-th
\* read_slice call returns the view of the i-th message and leaves the slice
\* at the start of the next one; after the last message the slice is empty.
C3_SliceAdvances ==
    (buf = Concat(msgs) /\ \A k \in 1..Len(msgs) : Loadable(msgs[k])) =>
        /\ \A i \in 1..Len(sliceRes) :
              i <= Len(msgs) =>
                  /\ sliceRes[i].res.ok
                  /\ sliceRes[i].res.jeff.cow = "Borrowed"
                  /\ module(sliceRes[i].res.jeff) = EncodedModule(msgs[i])
                  /\ sliceRes[i].rest = Concat(SubSeq(msgs, i + 1, Len(msgs)))
        /\ Len(sliceRes) = Len(msgs) => slice = <<>>

C3_Witness ==
    /\ Len(msgs) = 2
    /\ buf = Concat(msgs)
    /\ Loadable(msgs[1]) /\ Loadable(msgs[2])
    /\ EncodedModule(msgs[1]) # EncodedModule(msgs[2])
    /\ Len(msgs[1]) # Len(msgs[2])
    /\ Len(sliceRes) = 2
    /\ slice = <<>>

\* C4 as stated: once read has returned, nothing is left unread in its stream.
C4_StreamDrained ==
    \A e \in Entries(readRes) : e.rest = <<>>

\* C4, amended: read takes from its stream exactly the words of the first
\* message; what follows that message is still unread when it returns.
C4_ReadsOneMessage ==
    \A e \in Entries(readRes) :
        WellFramed(e.inp) => e.rest = AfterFirstMessage(e.inp)

C4_Witness ==
    \E e \in Entries(readRes) :
        /\ e.res.ok
        /\ e.res.jeff.cow = "Owned"
        /\ e.rest # <<>>
        /\ e.rest = stream

\* C5: loading the same bytes through read_slice and through read gives the
\* same outcome: the same error, or two views whose decoded module (the
\* value every accessor is computed from) is the same.
C5_BorrowedOwnedEquivalent ==
    \A a \in Entries(sliceRes) : \A b \in Entries(readRes) :
        a.inp = b.inp =>
            /\ a.res.ok = b.res.ok
            /\ a.res.err = b.res.err
            /\ a.res.v = b.res.v
            /\ a.res.ok => module(a.res.jeff) = module(b.res.jeff)

C5_Witness ==
    /\ \E a \in Entries(sliceRes) : \E b \in Entries(readRes) :
          /\ a.inp = b.inp
          /\ a.res.ok /\ b.res.ok
          /\ a.res.jeff.cow = "Borrowed" /\ b.res.jeff.cow = "Owned"
          /\ module(a.res.jeff).entrypoint = 1
          /\ a.rest # <<>>
    /\ \E a \in Entries(sliceRes) : \E b \in Entries(readRes) :
          a.inp = b.inp /\ a.res = InvalidVersion(1) /\ b.res = InvalidVersion(1)

(***************************************************************************)
(* Properties of the loaded module's entrypoint                            *)
(***************************************************************************)
\* C11 as stated: every module obtained from a successful load has
\* entrypoint_id() < function_count().
C11_EntrypointInRange ==
    \A e \in Entries(sliceRes) \cup Entries(readRes) :
        e.res.ok =>
            Module_entrypoint_id(module(e.res.jeff))
                < Module_function_count(module(e.res.jeff))

\* C11, amended: loading does not look at the entrypoint.  Every well-formed
\* message of the supported version loads, and the module it yields reports
\* the encoded entrypoint and the encoded number of functions, whether or not
\* the entrypoint is below that number.
C11_EntrypointUnchecked ==
    \A e \in Entries(sliceRes) \cup Entries(readRes) :
        (RootDecodes(e.inp) /\ EncodedVersion(e.inp) = SCHEMA_VERSION) =>
            /\ e.res.ok
            /\ Module_entrypoint_id(module(e.res.jeff)) = EncodedModule(e.inp).entrypoint
            /\ Module_function_count(module(e.res.jeff))
                  = Len(EncodedModule(e.inp).functions)

\* Both entry points have loaded a module whose entrypoint is out of range,
\* on which entrypoint() panics, and one whose entrypoint is in range.
C11_Witness ==
    /\ \E e \in Entries(sliceRes) :
          /\ e.res.ok
          /\ Module_entrypoint_id(module(e.res.jeff))
                >= Module_function_count(module(e.res.jeff))
          /\ Module_entrypoint(module(e.res.jeff)) = RetPanic
    /\ \E e \in Entries(readRes) :
          /\ e.res.ok
          /\ Module_entrypoint_id(module(e.res.jeff))
                >= Module_function_count(module(e.res.jeff))
          /\ Module_entrypoint(module(e.res.jeff)) = RetPanic
    /\ \E e \in Entries(readRes) :
          /\ e.res.ok
          /\ Module_entrypoint_id(module(e.res.jeff)) = 1
          /\ Module_function_count(module(e.res.jeff)) = 2

(***************************************************************************)
(* Properties of the string table, the value table and the entrypoint      *)
(***************************************************************************)
\* The encoded text list of the module under view.
EncStrings == view.strings

\* The encoded value list of the module's first function.
EncValues == view.functions[1].values

\* C6 as stated: get succeeds on every index below the table's length and
\* fails with StringOutOfBounds{context, idx, count} on every other index.
C6_InRangeSucceeds ==
    call.op = "StringTable::get" =>
        IF call.idx < Len(EncStrings)
        THEN ret.tag = "Ok"
        ELSE ret = RetErr(StringOutOfBounds(call.ctx, call.idx, Len(EncStrings)))

\* C6, amended: get returns the i-th string for every index below the table's
\* length whose entry is valid UTF-8 text, and fails with
\* StringOutOfBounds{context, idx: i, count: n} for every index i >= n.
C6_GetByRange ==
    call.op = "StringTable::get" =>
        IF call.idx < Len(EncStrings)
        THEN (/\ EncStrings[call.idx + 1].kind = "text"
              /\ EncStrings[call.idx + 1].bytes \in ValidTexts)
                 => ret = RetOk(EncStrings[call.idx + 1].bytes)
        ELSE ret = RetErr(StringOutOfBounds(call.ctx, call.idx, Len(EncStrings)))

C6_Witness ==
    /\ call.op = "StringTable::get"
    /\ Len(EncStrings) = 2
    /\ call.idx = 2
    /\ call.ctx = "gate name"
    /\ ret.tag = "Err"
    /\ ret.err.kind = "StringOutOfBounds"
    /\ ret.err.count = 2

\* C7: get on an index in range whose bytes are not valid UTF-8 fails with
\* StringNotUtf8 carrying that index and the caller's context.
C7_NotUtf8Reported ==
    (/\ call.op = "StringTable::get"
     /\ call.idx < Len(EncStrings)
     /\ EncStrings[call.idx + 1].kind = "text"
     /\ EncStrings[call.idx + 1].bytes \in InvalidTexts)
        => /\ ret.tag = "Err"
           /\ ret.err.kind = "StringNotUtf8"
           /\ ret.err.idx = call.idx
           /\ ret.err.context = call.ctx

C7_Witness ==
    /\ call.op = "StringTable::get"
    /\ call.idx = 1
    /\ call.ctx = "metadata name"
    /\ Len(EncStrings) = 2
    /\ EncStrings[1] = Text(<<65>>)
    /\ EncStrings[2] = Text(<<65, 255>>)
    /\ ret = RetErr(StringNotUtf8("metadata name", 1, 1))

\* C8: get(i) on a value table of length n returns, for i < n, a value with
\* id i and the type of the i-th entry, and fails with
\* ValueOutOfBounds{idx: i, count: n} for i >= n.
C8_ValueGet ==
    call.op = "ValueTable::get" =>
        IF call.idx < Len(EncValues)
        THEN /\ ret.tag = "Ok"
             /\ Value_id(ret.val) = Some(call.idx)
             /\ Value_ty(ret.val) = Type_read_capnp(EncValues[call.idx + 1].type)
        ELSE ret = RetErr(ValueOutOfBounds(call.idx, Len(EncValues)))

C8_Witness ==
    /\ call.op = "ValueTable::get"
    /\ call.idx = 1
    /\ Len(EncValues) = 2
    /\ EncValues[1].type = EncType("qubit", 0)
    /\ EncValues[2].type = EncType("float", "float32")
    /\ ret.tag = "Ok"
    /\ Value_ty(ret.val) = [tag |-> "Float", bits |-> 0, precision |-> "Float32"]

\* C9: iterating a value table of length n yields n pairs with ids 0..n-1 in
\* table order, and the value of each pair agrees with get(id) on its id, its
\* type, its metadata and its string table.
C9_IterMatchesGet ==
    call.op = "ValueTable::iter" =>
        /\ Len(ret.val) = Len(EncValues)
        /\ \A k \in 1..Len(ret.val) :
              LET got == ValueTable_get(FirstValues, ret.val[k].id)
              IN  /\ ret.val[k].id = k - 1
                  /\ got.tag = "Ok"
                  /\ Value_id(got.val) = Some(WireValue_id(ret.val[k].value))
                  /\ Value_ty(got.val) = WireValue_ty(ret.val[k].value)
                  /\ Value_ty(got.val) = Type_read_capnp(EncValues[k].type)
                  /\ got.val.metadata = ret.val[k].value.metadata
                  /\ got.val.strings = ret.val[k].value.strings

C9_Witness ==
    /\ call.op = "ValueTable::iter"
    /\ Len(EncValues) = 2
    /\ EncValues[1].type # EncValues[2].type
    /\ Len(ret.val) = 2
    /\ ret.val[2].id = 1

\* C10: entrypoint() is functions().nth(entrypoint_id()) and is also
\* function(entrypoint_id()), the view of the encoded function of that
\* index; with entrypoint_id() >= function_count() the call panics.
C10_Entrypoint ==
    call.op = "Module::entrypoint" =>
        IF Module_entrypoint_id(view) < Module_function_count(view)
        THEN /\ ret.tag = "Ok"
             /\ ret = nth(Module_functions(view), Module_entrypoint_id(view))
             /\ ret = Module_function(view, Module_entrypoint_id(view))
             /\ ret.val.function = view.functions[view.entrypoint + 1]
        ELSE ret.tag = "Panic"

C10_Witness ==
    /\ call.op = "Module::entrypoint"
    /\ Module_entrypoint_id(view) = 1
    /\ Module_function_count(view) = 2
    /\ view.functions[1] # view.functions[2]
    /\ ret.tag = "Ok"
    /\ ret.val.kind = "Definition"
    /\ ret.val.function = view.functions[2]

(***************************************************************************)
(* Properties of function signatures and of region and operation           *)
(* boundaries                                                              *)
(***************************************************************************)
\* The encoded first function of the module under view, its body and the
\* first operation of that body.
EncF0 == view.functions[1]
EncBody == EncF0.body
EncOp0 == EncBody.operations[1]

\* The value table of the first function.
Table == ValueTable_read_capnp(EncF0.values, StringTable_read_capnp(view.strings))

\* The ids resolved one by one through the table, in order.
Resolve(ids) == [k \in 1..Len(ids) |-> ValueTable_get(Table, ids[k])]

\* C12: on a definition, input_types() is body().sources() item by item (the
\* same value or the same error at each position, one item per encoded source
\* id), and output_types() is body().targets() likewise.
C12_DefinitionTypesFromBody ==
    /\ (call.op = "Function::input_types" /\ IsDefinition) =>
          /\ ret.val = Region_sources(Body)
          /\ ret.val = Resolve(EncBody.sources)
    /\ (call.op = "Function::output_types" /\ IsDefinition) =>
          /\ ret.val = Region_targets(Body)
          /\ ret.val = Resolve(EncBody.targets)

C12_Witness ==
    /\ call.op = "Function::input_types"
    /\ IsDefinition
    /\ Len(EncBody.sources) = 2
    /\ Len(EncBody.targets) = 1
    /\ Len(ret.val) = 2
    /\ ret.val[1].tag = "Ok"
    /\ Value_ty(ret.val[1].val) = Type_read_capnp(EncType("int", 1))
    /\ ret.val[2].tag = "Err"

\* C13: on a declaration, input_types() and output_types() yield one Ok item
\* per stored input/output value, in stored order and with the stored type,
\* never an error, and the values carry no value-table id.
C13_DeclarationTypes ==
    (call.op \in {"Function::input_types", "Function::output_types"} /\ ~IsDefinition) =>
        LET stored == IF call.op = "Function::input_types"
                      THEN EncF0.inputs ELSE EncF0.outputs
        IN  /\ Len(ret.val) = Len(stored)
            /\ \A k \in 1..Len(stored) :
                  /\ ret.val[k].tag = "Ok"
                  /\ Value_id(ret.val[k].val) = None
                  /\ Value_ty(ret.val[k].val) = Type_read_capnp(stored[k].type)

C13_Witness ==
    /\ call.op = "Function::output_types"
    /\ ~IsDefinition
    /\ Len(EncF0.inputs) = 1
    /\ Len(EncF0.outputs) = 2
    /\ Len(ret.val) = 2
    /\ ret.val[1].tag = "Ok" /\ ret.val[2].tag = "Ok"
    /\ Value_ty(ret.val[1].val) # Value_ty(ret.val[2].val)
    /\ Value_id(ret.val[2].val) = None

\* The encoded id list a call reads: sources/inputs for Incoming,
\* targets/outputs for Outgoing.
RegionIds(dir) == IF dir = Incoming THEN EncBody.sources ELSE EncBody.targets
OperationIds(dir) == IF dir = Incoming THEN EncOp0.inputs ELSE EncOp0.outputs

\* Two optional values are the same.
SameOption(a, b) == a.some = b.some /\ (a.some => a.x = b.x)

\* What boundary_value is to return on a list of ids.
ExpectValue(ids, idx) ==
    IF idx.hi = 0 /\ idx.lo < Len(ids)
    THEN Some(ValueTable_get(Table, ids[idx.lo + 1]))
    ELSE None

\* C14: on a region, Incoming reads the sources and Outgoing the targets; on
\* an operation, Incoming reads the inputs and Outgoing the outputs; this
\* holds for boundary, boundary_count and boundary_value and for the
\* accessors named after one side.
C14_DirectionConvention ==
    /\ call.op = "Region::boundary" => ret.val = Resolve(RegionIds(call.dir))
    /\ call.op = "Region::sources" => ret.val = Resolve(EncBody.sources)
    /\ call.op = "Region::targets" => ret.val = Resolve(EncBody.targets)
    /\ call.op = "Region::boundary_count" =>
          ret.val = Usize(0, Len(RegionIds(call.dir)))
    /\ call.op = "Region::source_count" => ret.val = Usize(0, Len(EncBody.sources))
    /\ call.op = "Region::target_count" => ret.val = Usize(0, Len(EncBody.targets))
    /\ call.op = "Region::boundary_value" =>
          SameOption(ret, ExpectValue(RegionIds(call.dir), call.idx))
    /\ call.op = "Region::source" => SameOption(ret, ExpectValue(EncBody.sources, call.idx))
    /\ call.op = "Region::target" => SameOption(ret, ExpectValue(EncBody.targets, call.idx))
    /\ call.op = "Operation::boundary" => ret.val = Resolve(OperationIds(call.dir))
    /\ call.op = "Operation::inputs" => ret.val = Resolve(EncOp0.inputs)
    /\ call.op = "Operation::outputs" => ret.val = Resolve(EncOp0.outputs)
    /\ call.op = "Operation::boundary_count" =>
          ret.val = Usize(0, Len(OperationIds(call.dir)))
    /\ call.op = "Operation::input_count" => ret.val = Usize(0, Len(EncOp0.inputs))
    /\ call.op = "Operation::output_count" => ret.val = Usize(0, Len(EncOp0.outputs))
    /\ call.op = "Operation::boundary_value" =>
          SameOption(ret, ExpectValue(OperationIds(call.dir), call.idx))
    /\ call.op = "Operation::input" => SameOption(ret, ExpectValue(EncOp0.inputs, call.idx))
    /\ call.op = "Operation::output" => SameOption(ret, ExpectValue(EncOp0.outputs, call.idx))

C14_Witness ==
    /\ call.op = "Operation::boundary_count"
    /\ call.dir = Outgoing
    /\ Len(EncOp0.inputs) = 1
    /\ Len(EncOp0.outputs) = 2
    /\ ret.val = Usize(0, 2)

\* The id list read by one of the indexed boundary accessors.
IndexedIds ==
    CASE call.op = "Region::source" -> EncBody.sources
      [] call.op = "Region::target" -> EncBody.targets
      [] call.op = "Region::boundary_value" -> RegionIds(call.dir)
      [] call.op = "Operation::input" -> EncOp0.inputs
      [] call.op = "Operation::output" -> EncOp0.outputs
      [] call.op = "Operation::boundary_value" -> OperationIds(call.dir)

\* C15: the indexed boundary accessors return None when idx is not below the
\* boundary length, Some(Err(ValueOutOfBounds{idx: id, count})) when idx is in
\* range and the encoded id is not below the table length, and Some(Ok(value))
\* with value.id() = Some(id) otherwise.
C15_BoundaryValue ==
    call.op \in {"Region::source", "Region::target", "Region::boundary_value",
                 "Operation::input", "Operation::output",
                 "Operation::boundary_value"} =>
        IF call.idx.hi > 0 \/ call.idx.lo >= Len(IndexedIds)
        THEN ~ret.some
        ELSE LET id == IndexedIds[call.idx.lo + 1]
             IN  IF id >= Len(EncF0.values)
                 THEN /\ ret.some
                      /\ ret.x = RetErr(ValueOutOfBounds(id, Len(EncF0.values)))
                 ELSE /\ ret.some
                      /\ ret.x.tag = "Ok"
                      /\ Value_id(ret.x.val) = Some(id)
                      /\ Value_ty(ret.x.val) = Type_read_capnp(EncF0.values[id + 1].type)

C15_Witness ==
    /\ call.op = "Region::source"
    /\ call.idx = Usize(0, 1)
    /\ EncBody.sources = <<0, 2>>
    /\ Len(EncF0.values) = 2
    /\ ret = Some(RetErr(ValueOutOfBounds(2, 2)))

(***************************************************************************)
(* Properties of switches and gates                                        *)
(***************************************************************************)
\* The encoded instruction of the first operation, its switch and its gate.
EncInstr0 == EncOp0.instruction
EncSwitch0 == EncInstr0.payload.payload
EncGate0 == EncInstr0.payload.gate

\* The view of an encoded region of the first function.
RegionView(region) ==
    Region_read_capnp(region, StringTable_read_capnp(view.strings), Table)

\* C16: on a switch with k branches, branch(n) is the n-th encoded branch for
\* n < k and panics for n >= k, and try_branch(n) is the same region for
\* n < k and None for n >= k, for every usize n.
C16_BranchByIndex ==
    call.op \in {"SwitchOp::branch", "SwitchOp::try_branch"} =>
        IF call.idx.hi = 0 /\ call.idx.lo < Len(EncSwitch0.branches)
        THEN ret = RetOk(RegionView(EncSwitch0.branches[call.idx.lo + 1]))
        ELSE ret.tag = IF call.op = "SwitchOp::branch" THEN "Panic" ELSE "None"

\* C17: default_branch() is None when the encoded switch has no default
\* region and is the default region when one is encoded, whatever the number
\* of branches.
C17_DefaultBranch ==
    call.op = "SwitchOp::default_branch" =>
        IF EncSwitch0.default.ptr = "struct"
        THEN ret = RetOk(RegionView(EncSwitch0.default.region))
        ELSE ret.tag = "None"

\* The base qubit count of an encoded gate: the custom gate's num_qubits, the
\* fixed table of the well-known gates, the length of the Pauli string.
BaseQubits(gate) ==
    CASE gate.which = "custom" -> gate.payload.num_qubits
      [] gate.which = "wellKnown" ->
             IF gate.payload = "gphase" THEN 0
             ELSE IF gate.payload = "swap" THEN 2
             ELSE 1
      [] gate.which = "ppr" -> Len(gate.payload)

\* C18: num_qubits() of a gate is the base qubit count of its gate type plus
\* control_qubits, as an exact sum.
C18_NumQubits ==
    call.op = "GateOp::num_qubits" =>
        ret.val = BaseQubits(EncGate0) + EncGate0.control_qubits

C18_Witness ==
    /\ call.op = "GateOp::num_qubits"
    /\ EncGate0.which = "wellKnown"
    /\ EncGate0.payload = "swap"
    /\ EncGate0.control_qubits = 1
    /\ ret.val = 3

\* The parameter count of an encoded gate: the custom gate's num_params, the
\* fixed table of the well-known gates, 1 for a Pauli-product rotation.
TableParams(gate) ==
    CASE gate.which = "custom" -> gate.payload.num_params
      [] gate.which = "wellKnown" ->
             IF gate.payload \in {"i", "x", "y", "z", "s", "t", "h", "swap"} THEN 0
             ELSE IF gate.payload = "u" THEN 3
             ELSE 1
      [] gate.which = "ppr" -> 1

\* C19: num_params() of a gate is given by its gate type alone; the controls,
\* adjoint and power do not enter.
C19_NumParams ==
    call.op = "GateOp::num_params" => ret.val = TableParams(EncGate0)

C19_Witness ==
    /\ call.op = "GateOp::num_params"
    /\ EncGate0.which = "ppr"
    /\ Len(EncGate0.payload) = 2
    /\ EncGate0.control_qubits = 255
    /\ EncGate0.adjoint
    /\ EncGate0.power = 2
    /\ ret.val = 1

(***************************************************************************)
(* Properties of the metadata accessors                                    *)
(***************************************************************************)
\* The encoded metadata list of the view of the given kind.
EncMetaOf(kind) ==
    CASE kind = "Module" -> view.metadata
      [] kind = "Function" -> EncF0.metadata
      [] kind = "Region" -> EncBody.metadata
      [] kind = "Operation" -> EncOp0.metadata
      [] kind = "Value" -> EncF0.values[1].metadata

\* The entry a metadata accessor is to hand out for an encoded entry.
Entry(meta) == RetOk([name |-> view.strings[meta.name + 1].bytes, value |-> meta.value])

\* C20: on every metadata-bearing view with c entries, metadata(n) is the
\* n-th entry for n < c and panics for n >= c, try_metadata(n) is the same
\* entry for n < c and None for n >= c, for every usize n, and
\* metadata_entries() yields the c entries in encoded order.
C20_MetadataByIndex ==
    /\ call.op \in {"HasMetadata::metadata", "HasMetadata::try_metadata"} =>
          IF call.idx.hi = 0 /\ call.idx.lo < Len(EncMetaOf(call.ctx))
          THEN ret = Entry(EncMetaOf(call.ctx)[call.idx.lo + 1])
          ELSE ret.tag = IF call.op = "HasMetadata::metadata" THEN "Panic" ELSE "None"
    /\ call.op = "HasMetadata::metadata_count" =>
          ret.val = Usize(0, Len(EncMetaOf(call.ctx)))
    /\ call.op = "HasMetadata::metadata_entries" =>
          /\ Len(ret.val) = Len(EncMetaOf(call.ctx))
          /\ \A k \in 1..Len(ret.val) : ret.val[k] = Entry(EncMetaOf(call.ctx)[k])

(***************************************************************************)
(* Properties of op_type                                                   *)
(***************************************************************************)
\* The first operation encodes a custom gate whose name index does not
\* resolve: string 1 is not UTF-8 and string 2 is outside the table.
BadGateName ==
    /\ EncInstr0.which = "qubit"
    /\ EncInstr0.payload.which = "gate"
    /\ EncGate0.which = "custom"
    /\ EncGate0.payload.name >= 1

\* The table accessors report a failed lookup as a typed error.
TableLookupsTyped ==
    /\ call.op = "StringTable::get" /\ call.idx = 1 =>
          ret.tag = "Err" /\ ret.err.kind = "StringNotUtf8"
    /\ call.op = "StringTable::get" /\ call.idx = 2 =>
          ret.tag = "Err" /\ ret.err.kind = "StringOutOfBounds"
    /\ call.op = "ValueTable::get" /\ call.idx = 3 =>
          ret.tag = "Err" /\ ret.err.kind = "ValueOutOfBounds"
    /\ call.op = "Operation::input" /\ call.idx.lo = 1 =>
          ret.some /\ ret.x.tag = "Err" /\ ret.x.err.kind = "ValueOutOfBounds"

\* C21 as stated: every accessor that performs a string-table or value-table
\* lookup reports a failed lookup as a typed error and never panics, op_type()
\* on a custom gate with an unresolvable name included.
C21_LookupFailuresTyped ==
    /\ TableLookupsTyped
    /\ call.op = "Operation::op_type" /\ BadGateName =>
          ret.tag = "Err" /\ ret.err.kind \in {"StringOutOfBounds", "StringNotUtf8"}

\* C21, amended: the table accessors and the boundary accessors report a
\* failed lookup as a typed error, while op_type() panics on a custom gate
\* whose name index is out of range or not UTF-8.
C21_GateNamePanics ==
    /\ TableLookupsTyped
    /\ call.op = "Operation::op_type" /\ BadGateName => ret.tag = "Panic"
    /\ call.op = "Operation::op_type" /\ ret.tag # "Panic" => ret.tag = "Ok"

C21_Witness ==
    /\ call.op = "Operation::op_type"
    /\ BadGateName
    /\ EncGate0.payload.name = 2
    /\ ret.tag = "Panic"

\* C23: op_type() of a call operation is FuncOp with the encoded func_idx
\* unchanged, whatever the number of functions of the module.
C23_FuncIdxUnchecked ==
    call.op = "Operation::op_type" /\ EncInstr0.which = "func" =>
        ret = RetOk([tag |-> "FuncOp", op |-> [func_idx |-> EncInstr0.payload]])

C23_Witness ==
    /\ call.op = "Operation::op_type"
    /\ EncInstr0.which = "func"
    /\ EncInstr0.payload = U16Max
    /\ EncInstr0.payload >= Len(view.functions)
    /\ ret.tag = "Ok"
    /\ ret.val.op.func_idx = U16Max

\* The OpType variant of each family of the instruction union.
FamilyVariant ==
    [qubit |-> "QubitOp", qureg |-> "QubitRegisterOp", int |-> "IntOp",
     intArray |-> "IntArrayOp", float |-> "FloatOp", floatArray |-> "FloatArrayOp",
     scf |-> "ControlFlowOp", func |-> "FuncOp"]

\* The variant of the same name as an encoded discriminant.
SameNamed ==
    [alloc |-> "Alloc", free |-> "Free", freeZero |-> "FreeZero",
     measure |-> "Measure", measureNd |-> "MeasureNd", reset |-> "Reset",
     gate |-> "Gate", extractIndex |-> "ExtractIndex", insertIndex |-> "InsertIndex",
     extractSlice |-> "ExtractSlice", insertSlice |-> "InsertSlice",
     length |-> "Length", split |-> "Split", join |-> "Join", create |-> "Create",
     const1 |-> "Const1", const8 |-> "Const8", const16 |-> "Const16",
     const32 |-> "Const32", const64 |-> "Const64", zero |-> "Zero",
     getIndex |-> "GetIndex", setIndex |-> "SetIndex",
     add |-> "Add", sub |-> "Sub", mul |-> "Mul", divS |-> "DivS", divU |-> "DivU",
     pow |-> "Pow", and |-> "And", or |-> "Or", xor |-> "Xor", not |-> "Not",
     minS |-> "MinS", minU |-> "MinU", maxS |-> "MaxS", maxU |-> "MaxU",
     eq |-> "Eq", ltS |-> "LtS", lteS |-> "LteS", ltU |-> "LtU", lteU |-> "LteU",
     abs |-> "Abs", remS |-> "RemS", remU |-> "RemU", shl |-> "Shl", shr |-> "Shr",
     lt |-> "Lt", lte |-> "Lte", sqrt |-> "Sqrt", ceil |-> "Ceil", floor |-> "Floor",
     isNan |-> "IsNan", isInf |-> "IsInf", exp |-> "Exp", log |-> "Log",
     sin |-> "Sin", cos |-> "Cos", tan |-> "Tan", asin |-> "Asin", acos |-> "Acos",
     atan |-> "Atan", atan2 |-> "Atan2", sinh |-> "Sinh", cosh |-> "Cosh",
     tanh |-> "Tanh", asinh |-> "Asinh", acosh |-> "Acosh", atanh |-> "Atanh",
     max |-> "Max", min |-> "Min",
     switch |-> "Switch", for |-> "For", while |-> "While", doWhile |-> "DoWhile"]

\* The discriminants of each family's union in the schema.
FamilyDiscriminants ==
    [qubit |-> {"alloc", "free", "freeZero", "measure", "measureNd", "reset", "gate"},
     qureg |-> {"alloc", "free", "freeZero", "extractIndex", "insertIndex",
                "extractSlice", "insertSlice", "length", "split", "join", "create"},
     int |-> {"const1", "const8", "const16", "const32", "const64", "add", "sub",
              "mul", "divS", "divU", "pow", "and", "or", "xor", "not", "minS",
              "minU", "maxS", "maxU", "eq", "ltS", "lteS", "ltU", "lteU", "abs",
              "remS", "remU", "shl", "shr"},
     intArray |-> {"const1", "const8", "const16", "const32", "const64", "zero",
                   "getIndex", "setIndex", "length", "create"},
     float |-> {"const32", "const64", "add", "sub", "mul", "pow", "eq", "lt", "lte",
                "sqrt", "abs", "ceil", "floor", "isNan", "isInf", "exp", "log",
                "sin", "cos", "tan", "asin", "acos", "atan", "atan2", "sinh",
                "cosh", "tanh", "asinh", "acosh", "atanh", "max", "min"},
     floatArray |-> {"const32", "const64", "zero", "getIndex", "setIndex", "length",
                     "create"},
     scf |-> {"switch", "for", "while", "doWhile"}]

\* The integer-array constants are named ConstArray<bits>.
VariantName(family, which) ==
    IF family = "intArray" /\ which \in {"const1", "const8", "const16", "const32", "const64"}
    THEN [const1 |-> "ConstArray1", const8 |-> "ConstArray8", const16 |-> "ConstArray16",
          const32 |-> "ConstArray32", const64 |-> "ConstArray64"][which]
    ELSE SameNamed[which]

IsConst(which) == which \in {"const1", "const8", "const16", "const32", "const64"}

\* A payload whose pointer or enumerant does not decode: no variant can be
\* built from it.
Undecodable(family, payload) ==
    \/ family \in {"intArray", "floatArray"} /\ IsConst(payload.which)
          /\ payload.val.ptr # "list"
    \/ family = "floatArray" /\ payload.which = "zero"
          /\ payload.val \notin {"float32", "float64"}

\* The encoded literal is carried by the constant-bearing variants.
CarriesLiteral(family, payload, op) ==
    CASE family \in {"int", "float"} /\ IsConst(payload.which) -> op.val = payload.val
      [] family \in {"intArray", "floatArray"} /\ IsConst(payload.which) ->
             op.val.values = payload.val.values
      [] family = "intArray" /\ payload.which = "zero" -> op.val.bits = payload.val
      [] family = "floatArray" /\ payload.which = "zero" ->
             op.val.precision = IF payload.val = "float32" THEN "Float32" ELSE "Float64"
      [] OTHER -> TRUE

\* C24: op_type() maps the instruction discriminant to the OpType variant of
\* the same family and, inside a family, each discriminant to the variant of
\* the same name, with the encoded literal unchanged; a discriminant outside
\* the schema panics, at either level.
C24_Dispatch ==
    call.op = "Operation::op_type" /\ ~BadGateName =>
        IF EncInstr0.which \notin DOMAIN FamilyVariant THEN ret.tag = "Panic"
        ELSE IF EncInstr0.which = "func"
        THEN ret.tag = "Ok" /\ ret.val.tag = "FuncOp"
        ELSE IF EncInstr0.payload.which \notin FamilyDiscriminants[EncInstr0.which]
        THEN ret.tag = "Panic"
        ELSE IF Undecodable(EncInstr0.which, EncInstr0.payload) THEN ret.tag = "Panic"
        ELSE /\ ret.tag = "Ok"
             /\ ret.val.tag = FamilyVariant[EncInstr0.which]
             /\ ret.val.op.tag = VariantName(EncInstr0.which, EncInstr0.payload.which)
             /\ CarriesLiteral(EncInstr0.which, EncInstr0.payload, ret.val.op)

C24_Witness ==
    /\ call.op = "Operation::op_type"
    /\ EncInstr0.which = "int"
    /\ EncInstr0.payload = EncVariant("const32", 7)
    /\ ret.val.tag = "IntOp"
    /\ ret.val.op = Variant("Const32", 7)

(***************************************************************************)
(* Properties of regions and nested regions                                *)
(***************************************************************************)
\* The encoded function a call is about, and views of it.
EncF(f) == view.functions[f + 1]

TableOf(f) == [values |-> EncF(f).values, strings |-> [strings |-> view.strings]]

\* The view of an encoded operation of function f.
OperationView(operation, f) ==
    [op |-> operation, strings |-> [strings |-> view.strings], values |-> TableOf(f)]

\* C25: on a region with c operations, operations() yields the c operations
\* in encoded order, operation(n) is the n-th of them for n < c and panics
\* for every n >= c.
C25_OperationByIndex ==
    /\ call.op = "Region::operation_count" =>
          ret.val = Usize(0, Len(EncF(call.ctx).body.operations))
    /\ call.op = "Region::operations" =>
          /\ Len(ret.val) = Len(EncF(call.ctx).body.operations)
          /\ \A k \in 1..Len(ret.val) :
                ret.val[k] = OperationView(EncF(call.ctx).body.operations[k], call.ctx)
    /\ call.op = "Region::operation" =>
          IF call.idx.hi = 0 /\ call.idx.lo < Len(EncF(call.ctx).body.operations)
          THEN ret = RetOk(OperationView(
                         EncF(call.ctx).body.operations[call.idx.lo + 1], call.ctx))
          ELSE ret.tag = "Panic"

\* The region of an encoded control-flow operation a step enters.
EncSelect(scf, into) ==
    CASE into.kind = "branch" -> scf.payload.branches[into.n + 1]
      [] into.kind = "default" -> scf.payload.default.region
      [] into.kind = "region" -> scf.payload
      [] into.kind = "condition" -> scf.payload.condition
      [] into.kind = "body" -> scf.payload.body

\* The encoded region a path leads to.
RECURSIVE EncWalk(_, _)
EncWalk(region, path) ==
    IF path = <<>> THEN region
    ELSE EncWalk(EncSelect(region.operations[Head(path).op + 1].instruction.payload,
                           Head(path).into),
                 Tail(path))

\* C28: a region reached from the body of function f through any nesting of
\* switch branches, defaults and loops is the encoded region of that name,
\* bound to the value table of f and the string table of the module, and so
\* are its operations.
C28_NestedBinding ==
    call.op = "walk" /\ ret.tag = "Ok" =>
        /\ ret.val.region = EncWalk(EncF(call.ctx).body, call.idx)
        /\ ret.val.values = TableOf(call.ctx)
        /\ ret.val.strings = [strings |-> view.strings]
        /\ \A k \in 1..Len(Region_operations(ret.val)) :
              Region_operations(ret.val)[k]
                  = OperationView(ret.val.region.operations[k], call.ctx)

C28_Witness ==
    /\ call.op = "walk"
    /\ call.ctx = 0
    /\ Len(call.idx) = 2
    /\ ret.tag = "Ok"
    /\ call.idx[1].into.kind = "body"
    /\ call.idx[2].into.kind = "condition"
    /\ EncF(0).body.operations[call.idx[1].op + 1].instruction.payload.which = "while"
    /\ ret.tag = "Ok"
    /\ ret.val.region = Leaf(3)
    /\ ret.val.values # TableOf(1)

(***************************************************************************)
(* Properties of boundaries                                                *)
(***************************************************************************)
\* What a boundary sequence is to hold at the position of an encoded id.
ItemOf(id) ==
    IF id >= Len(EncF0.values)
    THEN RetErr(ValueOutOfBounds(id, Len(EncF0.values)))
    ELSE ValueTable_get(Table, id)

\* What a type sequence is to hold at the position of an encoded id.
TypeItemOf(id) ==
    IF id >= Len(EncF0.values)
    THEN RetErr(ValueOutOfBounds(id, Len(EncF0.values)))
    ELSE RetOk(Type_read_capnp(EncF0.values[id + 1].type))

\* C26: on a region and on an operation, boundary(direction) yields
\* boundary_count(direction) items in encoded order, item i being
\* ValueTable.get of the i-th id, Err(ValueOutOfBounds) in place for an
\* out-of-range id; boundary_value(direction, i) is item i; input_types() and
\* output_types() of an operation hold the type of each Ok item and the
\* error of each Err item.
C26_BoundarySequences ==
    /\ call.op = "Region::boundary" =>
          /\ Usize(0, Len(ret.val)) = Region_boundary_count(Body, call.dir)
          /\ Len(ret.val) = Len(RegionIds(call.dir))
          /\ \A k \in 1..Len(ret.val) : ret.val[k] = ItemOf(RegionIds(call.dir)[k])
    /\ call.op = "Operation::boundary" =>
          /\ Usize(0, Len(ret.val)) = Operation_boundary_count(Op0, call.dir)
          /\ Len(ret.val) = Len(OperationIds(call.dir))
          /\ \A k \in 1..Len(ret.val) : ret.val[k] = ItemOf(OperationIds(call.dir)[k])
    /\ (call.op = "Region::boundary_value" /\ call.idx.hi = 0
            /\ call.idx.lo < Len(RegionIds(call.dir))) =>
          ret = Some(Region_boundary(Body, call.dir)[call.idx.lo + 1])
    /\ (call.op = "Operation::boundary_value" /\ call.idx.hi = 0
            /\ call.idx.lo < Len(OperationIds(call.dir))) =>
          ret = Some(Operation_boundary(Op0, call.dir)[call.idx.lo + 1])
    /\ call.op = "Operation::input_types" =>
          /\ Len(ret.val) = Len(EncOp0.inputs)
          /\ \A k \in 1..Len(ret.val) : ret.val[k] = TypeItemOf(EncOp0.inputs[k])
    /\ call.op = "Operation::output_types" =>
          /\ Len(ret.val) = Len(EncOp0.outputs)
          /\ \A k \in 1..Len(ret.val) : ret.val[k] = TypeItemOf(EncOp0.outputs[k])

C26_Witness ==
    /\ call.op = "Operation::output_types"
    /\ EncOp0.outputs = <<2, 0>>
    /\ Len(EncF0.values) = 2
    /\ ret.val = <<RetErr(ValueOutOfBounds(2, 2)), RetOk(Type_read_capnp(EncType("qubit", 0)))>>

(***************************************************************************)
(* Properties of a rejected version                                        *)
(***************************************************************************)
\* C29: a read_slice call that fails with InvalidVersion leaves the slice
\* past the rejected message, and the next read_slice call on the slice
\* starts at the message that follows.
C29_RejectedVersionAdvances ==
    \A i \in 1..Len(sliceRes) :
        sliceRes[i].res.err = "InvalidVersion" =>
            /\ sliceRes[i].rest = AfterFirstMessage(sliceRes[i].inp)
            /\ sliceRes[i].rest # sliceRes[i].inp
            /\ i < Len(sliceRes) => sliceRes[i + 1].inp = AfterFirstMessage(sliceRes[i].inp)
            /\ i = Len(sliceRes) => slice = AfterFirstMessage(sliceRes[i].inp)

C29_Witness ==
    /\ Len(msgs) = 2
    /\ buf = Concat(msgs)
    /\ Len(sliceRes) = 2
    /\ sliceRes[1].res = InvalidVersion(HighVersion)
    /\ sliceRes[2].inp = msgs[2]
    /\ sliceRes[2].res.ok
    /\ module(sliceRes[2].res.jeff) = EncodedModule(msgs[2])
    /\ slice = <<>>

(***************************************************************************)
(* Properties of metadata names                                            *)
(***************************************************************************)
\* The name index of an encoded entry does not resolve in NameStrings.
BadName(meta) == meta.name >= 1

\* What an accessor is to hand out for an encoded entry: the entry with its
\* name resolved, or a panic.
EagerEntry(meta) ==
    IF BadName(meta) THEN RetPanic
    ELSE RetOk([name |-> view.strings[meta.name + 1].bytes, value |-> meta.value])

InRange == call.idx.hi = 0 /\ call.idx.lo < Len(EncMetaOf(call.ctx))

\* C30: for an in-range n whose entry has an unresolvable name, metadata(n)
\* and try_metadata(n) panic and the metadata_entries() iterator panics at
\* that position; try_metadata is not None for such an entry; name() on an
\* entry that was obtained returns the resolved name.
C30_EagerNames ==
    /\ (call.op \in {"HasMetadata::metadata", "HasMetadata::try_metadata"} /\ InRange) =>
          ret = EagerEntry(EncMetaOf(call.ctx)[call.idx.lo + 1])
    /\ call.op = "HasMetadata::metadata_entries" =>
          /\ Len(ret.val) = Len(EncMetaOf(call.ctx))
          /\ \A k \in 1..Len(ret.val) : ret.val[k] = EagerEntry(EncMetaOf(call.ctx)[k])
    /\ (call.op = "Metadata::name" /\ InRange) =>
          IF BadName(EncMetaOf(call.ctx)[call.idx.lo + 1])
          THEN ret.tag = "Panic"
          ELSE ret = RetOk(view.strings[EncMetaOf(call.ctx)[call.idx.lo + 1].name + 1].bytes)

C30_Witness ==
    /\ call.op = "HasMetadata::try_metadata"
    /\ call.ctx = "Operation"
    /\ call.idx = Usize(0, 1)
    /\ Len(EncMetaOf("Operation")) = 2
    /\ EncMetaOf("Operation")[1].name = 0
    /\ EncMetaOf("Operation")[2].name = 2
    /\ ret.tag = "Panic"

(***************************************************************************)
(* Properties of repeated and interleaved reads                            *)
(***************************************************************************)
\* The last call of reader r as an accessor call.
LastCall(r) == [op |-> call[r].op, idx |-> call[r].idx, held |-> call[r].held]

\* C22: whatever the other readers of the module did in between, a call
\* returns what it returns when its reader is the only one: the result on a
\* reader that only this reader's earlier calls have drawn on.
C22_AloneResult ==
    \A r \in Readers :
        call[r].op # "none" =>
            /\ ret[r].tag = Outcome(MaxTraversal - call[r].before, LastCall(r)).tag
            /\ ret[r] = Outcome(MaxTraversal - call[r].before, LastCall(r))

\* C27: a call that repeats the reader's previous call returns the result of
\* the first of them.
C27_RepeatedResult ==
    \A r \in Readers :
        call[r].op # "none" =>
            /\ ret[r].tag = call[r].first.tag
            /\ ret[r] = call[r].first

====
